---- MODULE Spec2Model ----
(***************************************************************************)
(* A model of the PCD point-cloud codec: the LZF codec, the field model,   *)
(* the header and payload codecs, the colour transcoder and the file       *)
(* operations parse / write / updateLabels / convertFormat.                *)
(*                                                                         *)
(* Bytes are naturals 0..255.  A column value is the bit pattern of the    *)
(* stored number (a natural below 2^(8*width)), so "bit-for-bit equal" is  *)
(* equality of patterns.  Buffer positions are 0-based offsets as in the   *)
(* C++ code; element i of a buffer b is b[i+1].                            *)
(***************************************************************************)
EXTENDS Integers, Sequences, FiniteSets, TLC

\* ------------------------------------------------------------------------
\* Bit arithmetic on naturals
\* ------------------------------------------------------------------------

RECURSIVE BitXor(_, _)
BitXor(a, b) ==
    IF a = 0 THEN b
    ELSE IF b = 0 THEN a
    ELSE (((a % 2) + (b % 2)) % 2) + (2 * BitXor(a \div 2, b \div 2))

RECURSIVE BitOr(_, _)
BitOr(a, b) ==
    IF a = 0 THEN b
    ELSE IF b = 0 THEN a
    ELSE (IF (a % 2) = 1 \/ (b % 2) = 1 THEN 1 ELSE 0) + (2 * BitOr(a \div 2, b \div 2))

RECURSIVE Pow2(_)
Pow2(n) == IF n = 0 THEN 1 ELSE 2 * Pow2(n - 1)

Min(a, b) == IF a < b THEN a ELSE b
Max(a, b) == IF a < b THEN b ELSE a

\* ------------------------------------------------------------------------
\* LZF codec
\* ------------------------------------------------------------------------

\* The byte at offset i of a buffer.  An offset at or past the buffer's
\* length is outside it: the byte read there is whatever lies behind the
\* buffer in memory, which the code does not control.  junk selects one such
\* memory content; the k-th byte past the end is then (junk + k) % 256.
SrcByte(in, i, junk) ==
    IF i < Len(in) THEN in[i + 1] ELSE (junk + (i - Len(in))) % 256

\* Literal run: the bounds check of the decoder.
LitFits(opos, ipos, len, in_len, out_len) ==
    ~(opos + len > out_len \/ ipos + len > in_len)

\* RefFits without the test for a reference before the start of the output.
RefFitsEndOnly(opos, len, off, out_len) ==
    ~(opos + len > out_len)

\* Back reference: the bounds check of the decoder.
RefFits(opos, len, off, out_len) ==
    ~(opos + len > out_len \/ opos - off < 0)

\* The overlap-tolerant copy loop: len bytes from offset ref of the output
\* to its end, one at a time, so that a byte copied earlier in the loop can
\* be the source of a later one.  The loop over len bytes is the loop over
\* the first half followed by the loop over the rest.  A source offset below
\* 0 lies before the buffer (the byte there is unknown, modelled as 0).
RECURSIVE CopyRef(_, _, _)
CopyRef(out, ref, len) ==
    IF len = 0 THEN out
    ELSE IF len = 1
    THEN Append(out, IF ref >= 0 /\ ref < Len(out) THEN out[ref + 1] ELSE 0)
    ELSE LET h == len \div 2
             first == CopyRef(out, ref, h)
         IN \* (the test only fixes the order of evaluation: first half first)
            IF Len(first) > 0 THEN CopyRef(first, ref + h, len - h) ELSE first

\* The decoder's loop.  s = [ip, out, oob, wrote, under]:
\*   ip    offset of the next source byte
\*   out   the bytes produced so far (op = Len(out))
\*   oob   a source byte at an offset >= in_len has been read
\*   wrote an output byte at an offset >= out_len has been written
\*   under a byte has been copied from an output offset below 0
\* The result adds ret, the function's return value.
RECURSIVE lzfDecompressLoop(_, _, _, _)
lzfDecompressLoop(in, out_len, junk, s) ==
    IF ~(s.ip < Len(in))
    THEN [ret |-> Len(s.out), out |-> s.out, oob |-> s.oob,
          wrote |-> s.wrote, under |-> s.under, reject |-> "none"]
    ELSE
      LET ctrl == in[s.ip + 1]
          ip1  == s.ip + 1
      IN IF ctrl < 32
         THEN LET len == ctrl + 1
              IN IF ~LitFits(Len(s.out), ip1, len, Len(in), out_len)
                 THEN [ret |-> 0, out |-> s.out, oob |-> s.oob,
                       wrote |-> s.wrote, under |-> s.under, reject |-> "literal"]
                 ELSE lzfDecompressLoop(in, out_len, junk,
                        [s EXCEPT !.ip = ip1 + len,
                                  !.out = s.out \o [k \in 1..len |-> SrcByte(in, ip1 + k - 1, junk)],
                                  !.oob = s.oob \/ ip1 + len > Len(in),
                                  !.wrote = s.wrote \/ Len(s.out) + len > out_len])
         ELSE LET len0 == (ctrl \div 32) + 2
                  off0 == ((ctrl % 32) * 256) + 1
                  ext  == len0 = 9
                  len  == IF ext THEN len0 + SrcByte(in, ip1, junk) ELSE len0
                  ip2  == IF ext THEN ip1 + 1 ELSE ip1
                  off  == off0 + SrcByte(in, ip2, junk)
                  ip3  == ip2 + 1
                  oob1 == s.oob \/ ip2 >= Len(in)
              IN IF ~RefFits(Len(s.out), len, off, out_len)
                 THEN [ret |-> 0, out |-> s.out, oob |-> oob1,
                       wrote |-> s.wrote, under |-> s.under, reject |-> "backref"]
                 ELSE lzfDecompressLoop(in, out_len, junk,
                        [s EXCEPT !.ip = ip3,
                                  !.out = CopyRef(s.out, Len(s.out) - off, len),
                                  !.oob = oob1,
                                  !.wrote = s.wrote \/ Len(s.out) + len > out_len,
                                  !.under = s.under \/ Len(s.out) - off < 0])

lzfDecompress(in, out_len, junk) ==
    lzfDecompressLoop(in, out_len, junk,
        [ip |-> 0, out |-> << >>, oob |-> FALSE, wrote |-> FALSE, under |-> FALSE])

\* --- compressor ---------------------------------------------------------

HTAB_SIZE == 16384
MAX_OFF == 8191
MAX_REF == 264
MAX_LIT == 32

\* The hash of the three bytes at offset ip.
lzfHash(in, ip) ==
    LET h0 == BitXor(BitOr(in[ip + 1] * 256, in[ip + 2]), in[ip + 3] * 32)
        h1 == BitXor(h0 \div 4, h0)
    IN h1 % HTAB_SIZE

\* Literal instructions for the lit_len bytes at offset lit: chunks of 32
\* with control byte 31, then the rest with control byte lit_len - 1.
RECURSIVE lzfLiterals(_, _, _)
lzfLiterals(in, lit, lit_len) ==
    IF lit_len > MAX_LIT
    THEN <<MAX_LIT - 1>> \o SubSeq(in, lit + 1, lit + MAX_LIT)
         \o lzfLiterals(in, lit + MAX_LIT, lit_len - MAX_LIT)
    ELSE IF lit_len > 0
    THEN <<(lit_len - 1) % 256>> \o SubSeq(in, lit + 1, lit + lit_len)
    ELSE << >>

\* Extends a match of len bytes at ip against ref, up to max_len: the first
\* length at which the loop "while (len < max_len && ip[len] == ref[len])"
\* stops.
lzfMatchLen(in, ip, ref, len, max_len) ==
    LET stops == {k \in len..max_len :
                    IF k < max_len THEN in[ip + k + 1] # in[ref + k + 1] ELSE TRUE}
    IN IF len >= max_len THEN len
       ELSE CHOOSE k \in stops : \A j \in stops : k <= j

\* The back-reference instruction for (len, off); "fail" when the third
\* byte does not fit.
lzfBackRef(opos, len, off, out_len) ==
    IF len <= 8
    THEN [ok |-> TRUE,
          bytes |-> <<BitOr((len - 2) * 32, (off - 1) \div 256) % 256, (off - 1) % 256>>]
    ELSE IF opos + 2 >= out_len
    THEN [ok |-> FALSE, bytes |-> << >>]
    ELSE [ok |-> TRUE,
          bytes |-> <<BitOr(7 * 32, (off - 1) \div 256) % 256, (len - 9) % 256,
                      (off - 1) % 256>>]

\* The literals that remain after the main loop.
lzfTail(in, out_len, lit, out) ==
    LET lit_len == Len(in) - lit
    IN IF lit_len > 0
       THEN IF Len(out) + lit_len + ((lit_len + 31) \div 32) >= out_len
            THEN [ret |-> 0, out |-> out]
            ELSE LET o == out \o lzfLiterals(in, lit, lit_len)
                 IN [ret |-> Len(o), out |-> o]
       ELSE [ret |-> Len(out), out |-> out]

\* The main loop.  htab maps a hash to the last offset stored under it; a
\* hash outside its domain is a null entry.
RECURSIVE lzfCompressLoop(_, _, _, _, _, _)
lzfCompressLoop(in, out_len, ip, lit, htab, out) ==
    IF ~(ip < Len(in) - 2)
    THEN lzfTail(in, out_len, lit, out)
    ELSE
      LET hash  == lzfHash(in, ip)
          isRef == hash \in DOMAIN htab
          ref   == IF isRef THEN htab[hash] ELSE 0
          htab1 == [h \in (DOMAIN htab) \cup {hash} |-> IF h = hash THEN ip ELSE htab[h]]
          off   == ip - ref
          match == /\ isRef
                   /\ off <= MAX_OFF
                   /\ ref >= 0
                   /\ in[ref + 1] = in[ip + 1]
                   /\ in[ref + 2] = in[ip + 2]
                   /\ in[ref + 3] = in[ip + 3]
      IN IF match
         THEN LET lit_len == ip - lit
                  litFail == lit_len > 0 /\ Len(out) + lit_len + 1 >= out_len
                  out1    == out \o lzfLiterals(in, lit, lit_len)
                  max_len == Min(Len(in) - ip, MAX_REF)
                  len     == lzfMatchLen(in, ip, ref, 3, max_len)
                  br      == lzfBackRef(Len(out1), len, off, out_len)
              IN IF litFail THEN [ret |-> 0, out |-> out]
                 ELSE IF Len(out1) + 2 >= out_len THEN [ret |-> 0, out |-> out1]
                 ELSE IF ~br.ok THEN [ret |-> 0, out |-> out1]
                 ELSE lzfCompressLoop(in, out_len, ip + len, ip + len, htab1,
                                      out1 \o br.bytes)
         ELSE lzfCompressLoop(in, out_len, ip + 1, lit, htab1, out)

\* lzfCompress: ret is the number of bytes produced, 0 on failure.
lzfCompress(in, out_len) ==
    IF Len(in) < 3
    THEN IF Len(in) # 0 /\ Len(in) + 1 <= out_len
         THEN [ret |-> Len(in) + 1, out |-> <<(Len(in) - 1) % 256>> \o in]
         ELSE [ret |-> 0, out |-> << >>]
    ELSE lzfCompressLoop(in, out_len, 1, 0, << >>, << >>)

\* The scratch buffer the encoder allocates for totalSize input bytes.
ScratchLen(totalSize) == totalSize + (totalSize \div 8) + 16

\* ------------------------------------------------------------------------
\* Field model (pcd_parser.h)
\* ------------------------------------------------------------------------

\* A column is [rep, v]: rep names the active alternative of the FieldData
\* variant, v is the vector, each element the little-endian bytes of the
\* stored number (RepSize(rep) of them).
Reps == {"i8", "u8", "i16", "u16", "i32", "u32", "f32", "f64"}

RepSize(rep) ==
    CASE rep \in {"i8", "u8"} -> 1
      [] rep \in {"i16", "u16"} -> 2
      [] rep \in {"i32", "u32", "f32"} -> 4
      [] OTHER -> 8

RepIsFloat(rep) == rep \in {"f32", "f64"}
RepIsSigned(rep) == rep \in {"i8", "i16", "i32"}

Zeros(n) == [i \in 1..n |-> 0]

Column(rep, v) == [rep |-> rep, v |-> v]

\* createStorage with a double column as the fallback.
StorageRepDoubleFallback(type, size) ==
    CASE type = "I" /\ size = 1 -> "i8"
      [] type = "I" /\ size = 2 -> "i16"
      [] type = "I" /\ size = 4 -> "i32"
      [] type = "U" /\ size = 1 -> "u8"
      [] type = "U" /\ size = 2 -> "u16"
      [] type = "U" /\ size = 4 -> "u32"
      [] type = "F" /\ size = 4 -> "f32"
      [] OTHER -> "f64"

\* FieldInfo::createStorage, the representation it selects.
StorageRep(type, size) ==
    CASE type = "I" /\ size = 1 -> "i8"
      [] type = "I" /\ size = 2 -> "i16"
      [] type = "I" /\ size = 4 -> "i32"
      [] type = "U" /\ size = 1 -> "u8"
      [] type = "U" /\ size = 2 -> "u16"
      [] type = "U" /\ size = 4 -> "u32"
      [] type = "F" /\ size = 4 -> "f32"
      [] type = "F" /\ size = 8 -> "f64"
      [] OTHER -> "f32"

createStorage(f) == Column(StorageRep(f.type, f.size), << >>)

\* The (type, size) pairs the decoders have a case for.
Decodable(f) ==
    \/ f.type \in {"I", "U"} /\ f.size \in {1, 2, 4}
    \/ f.type = "F" /\ f.size \in {4, 8}

Field(name, size, type, count) ==
    [name |-> name, size |-> size, type |-> type, count |-> count]

\* ::tolower on the field names that occur in the model.
ToLower(name) ==
    CASE name = "X" -> "x"
      [] name = "Label" -> "label"
      [] name = "RGB" -> "rgb"
      [] name = "R" -> "r"
      [] name = "Y" -> "y"
      [] name = "Z" -> "z"
      [] name = "RGBA" -> "rgba"
      [] name = "Intensity" -> "intensity"
      [] OTHER -> name

\* PCDHeader::findField, the loop from 1-based position i: the 0-based
\* index of the first field whose lower-cased name is lowerName, -1 if none.
RECURSIVE findFieldFrom(_, _, _)
findFieldFrom(fields, lowerName, i) ==
    IF i > Len(fields) THEN -1
    ELSE IF ToLower(fields[i].name) = lowerName THEN i - 1
    ELSE findFieldFrom(fields, lowerName, i + 1)

\* findField with the name it is given left as it is.
findFieldExact(fields, name) == findFieldFrom(fields, name, 1)

\* PCDHeader::findField
findField(fields, name) == findFieldFrom(fields, ToLower(name), 1)

RECURSIVE SumSizes(_, _)
SumSizes(fields, i) ==
    IF i > Len(fields) THEN 0
    ELSE (fields[i].size * fields[i].count) + SumSizes(fields, i + 1)

\* PCDHeader::getPointSize
getPointSize(fields) == SumSizes(fields, 1)

\* PCDHeader defaults (version and viewpoint are strings copied verbatim
\* and are left out).
DefaultHeader ==
    [fields |-> << >>, width |-> 0, height |-> 1, points |-> 0, dataType |-> "ascii"]

\* PCDData: [header, fieldData].
PCDData(header, fieldData) == [header |-> header, fieldData |-> fieldData]

\* PCDData::numPoints
numPoints(data) ==
    IF Len(data.fieldData) = 0 THEN 0 ELSE Len(data.fieldData[1].v)

\* setLabels that always adds a field.
setLabelsAppend(data, labels) ==
    PCDData([data.header EXCEPT !.fields = Append(@, Field("label", 4, "U", 1))],
            Append(data.fieldData, Column("u32", labels)))

\* PCDData::setLabels
setLabels(data, labels) ==
    LET idx == findField(data.header.fields, "label")
    IN IF idx < 0
       THEN PCDData([data.header EXCEPT !.fields = Append(@, Field("label", 4, "U", 1))],
                    Append(data.fieldData, Column("u32", labels)))
       ELSE PCDData(data.header,
                    [data.fieldData EXCEPT ![idx + 1] = Column("u32", labels)])

\* ------------------------------------------------------------------------
\* Numbers as text (ascii payload)
\* ------------------------------------------------------------------------

\* A token of an ascii row is [k, q]:
\*   k = "int": a decimal integer; q is its value as 8 little-endian bytes in
\*              two's complement (what operator<< prints for an int64_t)
\*   k = "flt": a floating-point number printed with 9 significant digits; q
\*              is the bytes of the float (4) or double (8) it was printed from
\*   k = "bad": text that is not a number
Token(k, q) == [k |-> k, q |-> q]

\* The bytes of val extended to 8 bytes: by the sign for a signed
\* representation, by zeros otherwise (static_cast<int64_t>).
Ext64(rep, val) ==
    LET fill == IF RepIsSigned(rep) /\ val[Len(val)] >= 128 THEN 255 ELSE 0
    IN val \o [i \in 1..(8 - Len(val)) |-> fill]

\* q is the int64 of a value that an int (32 bits) can hold.
FitsInt(q) ==
    LET fill == IF q[4] >= 128 THEN 255 ELSE 0
    IN \A i \in 5..8 : q[i] = fill

\* A float whose exponent field is 0 and whose fraction is not: subnormal.
IsSubnormalF32(q) ==
    /\ q[4] % 128 = 0 /\ q[3] < 128
    /\ ~(q[1] = 0 /\ q[2] = 0 /\ q[3] = 0)

\* n as little-endian bytes.
LEBytes(n, w) == [i \in 1..w |-> (n \div Pow2(8 * (i - 1))) % 256]

\* The value of little-endian bytes (for values below 2^31).
RECURSIVE LEValue(_)
LEValue(b) == IF Len(b) = 0 THEN 0 ELSE b[1] + (256 * LEValue(Tail(b)))

RECURSIVE Log2(_)
Log2(n) == IF n < 2 THEN 0 ELSE 1 + Log2(n \div 2)

\* The float nearest to a small non-negative integer (exact below 2^24).
IntToF32(n) ==
    IF n = 0 THEN Zeros(4)
    ELSE LET e == Log2(n)
         IN LEBytes(((127 + e) * Pow2(23)) + ((n - Pow2(e)) * Pow2(23 - e)), 4)

\* operator<< of one column value.
writeToken(rep, val) ==
    IF RepIsFloat(rep) THEN Token("flt", val) ELSE Token("int", Ext64(rep, val))

\* The values one token appends to the column of field f in parseAsciiData:
\* the converted number, the column's zero when the conversion throws, or
\* nothing when the switch has no case for (type, size).
\* Not among the modelled inputs, and answered with the column's zero here:
\* a "flt" token under an integer field (stoi reads a prefix of its text), an
\* "int" token under an 8-byte float field, and an "int" token outside
\* 0..2^24-1 under a 4-byte float field.
asciiValue(f, tok) ==
    LET zero == <<Zeros(RepSize(StorageRep(f.type, f.size)))>>
    IN IF ~Decodable(f) THEN << >>
       ELSE IF tok.k = "bad" THEN zero
       ELSE IF f.type = "I"
       THEN IF tok.k # "int" THEN zero
            ELSE IF f.size = 4 THEN <<SubSeq(tok.q, 1, 4)>>
            ELSE IF FitsInt(tok.q) THEN <<SubSeq(tok.q, 1, f.size)>> ELSE zero
       ELSE IF f.type = "U"
       THEN IF tok.k # "int" THEN zero ELSE <<SubSeq(tok.q, 1, f.size)>>
       ELSE IF f.size = 4
       THEN IF tok.k = "int"
            THEN IF \A i \in 4..8 : tok.q[i] = 0
                 THEN <<IntToF32(LEValue(SubSeq(tok.q, 1, 3)))>> ELSE zero
            ELSE IF Len(tok.q) = 4 /\ ~IsSubnormalF32(tok.q) THEN <<tok.q>> ELSE zero
       ELSE IF tok.k = "flt" /\ Len(tok.q) = 8 THEN <<tok.q>> ELSE zero

\* ------------------------------------------------------------------------
\* Files
\* ------------------------------------------------------------------------

\* A file is its header lines and the bytes after the DATA line:
\*   names, sizes, types, counts   the values of FIELDS, SIZE, TYPE, COUNT
\*   width, height, points         the values of WIDTH, HEIGHT, POINTS
\*   hasData, dataArgs             whether there is a DATA line, and the words
\*                                 that follow the key on it
\*   body                          the payload: [kind |-> "text", rows] for
\*                                 lines of tokens, [kind |-> "bytes", bytes]
\* NoFile stands for a path at which no file can be opened.
TextBody(rows) == [kind |-> "text", rows |-> rows, bytes |-> << >>]
BytesBody(bytes) == [kind |-> "bytes", rows |-> << >>, bytes |-> bytes]

NoFile ==
    [exists |-> FALSE, names |-> << >>, sizes |-> << >>, types |-> << >>,
     counts |-> << >>, width |-> 0, height |-> 0, points |-> 0,
     hasData |-> FALSE, dataArgs |-> << >>, body |-> TextBody(<< >>)]

\* ------------------------------------------------------------------------
\* Header codec and payload decoder (pcd_parser.cpp)
\* ------------------------------------------------------------------------

\* The header's dataType after parseHeader: the word after DATA.  Without a
\* DATA line, or without a word after the key, the extraction does not
\* happen or fails before it touches the string, and the member keeps the
\* value PCDHeader initialises it with.
headerDataType(file, default) ==
    IF file.hasData /\ Len(file.dataArgs) > 0 THEN file.dataArgs[1] ELSE default

\* PCDParser::parseHeader: the header, and what is left of the stream (the
\* loop reads to the end of the file when it meets no DATA line).
parseHeader(file) ==
    [header |->
        [fields |-> [i \in 1..Len(file.names) |->
                        Field(file.names[i],
                              IF i <= Len(file.sizes) THEN file.sizes[i] ELSE 4,
                              IF i <= Len(file.types) THEN file.types[i] ELSE "F",
                              IF i <= Len(file.counts) THEN file.counts[i] ELSE 1)],
         width |-> file.width, height |-> file.height, points |-> file.points,
         dataType |-> headerDataType(file, DefaultHeader.dataType)],
     rest |-> IF file.hasData THEN file.body ELSE TextBody(<< >>)]

\* The values the rows append to the column of field i (1-based): a row
\* contributes only when it has an i-th token.
RECURSIVE asciiColumn(_, _, _, _)
asciiColumn(f, i, rows, k) ==
    IF k > Len(rows) THEN << >>
    ELSE (IF i <= Len(rows[k]) THEN asciiValue(f, rows[k][i]) ELSE << >>)
         \o asciiColumn(f, i, rows, k + 1)

\* PCDParser::parseAsciiData
parseAsciiData(body, header) ==
    [i \in 1..Len(header.fields) |->
        Column(createStorage(header.fields[i]).rep,
               asciiColumn(header.fields[i], i, body.rows, 1))]

\* The offset of field i within a point of the binary encoding.
RECURSIVE binaryOffset(_, _)
binaryOffset(fields, i) ==
    IF i = 1 THEN 0
    ELSE binaryOffset(fields, i - 1) + (fields[i - 1].size * fields[i - 1].count)

\* size bytes at offset off of buf; bytes past the end of buf are junk.
ReadBytes(buf, off, size, junk) == [k \in 1..size |-> SrcByte(buf, off + k - 1, junk)]

\* The points the loop of parseBinaryData decodes: it stops at the first
\* point the stream cannot supply in full.
binaryPointsRead(header, bytes) ==
    LET pointSize == getPointSize(header.fields)
    IN IF pointSize = 0 THEN header.points
       ELSE Min(header.points, Len(bytes) \div pointSize)

\* PCDParser::parseBinaryData
parseBinaryData(body, header) ==
    LET pointSize == getPointSize(header.fields)
        n == binaryPointsRead(header, body.bytes)
    IN [i \in 1..Len(header.fields) |->
          LET f == header.fields[i]
          IN Column(createStorage(f).rep,
                    IF Decodable(f)
                    THEN [pt \in 1..n |->
                            ReadBytes(body.bytes,
                                      ((pt - 1) * pointSize) + binaryOffset(header.fields, i),
                                      f.size, 0)]
                    ELSE << >>)]

\* The offset of field i in the field-major layout.
RECURSIVE compressedOffset(_, _, _)
compressedOffset(fields, points, i) ==
    IF i = 1 THEN 0
    ELSE compressedOffset(fields, points, i - 1)
         + (fields[i - 1].size * fields[i - 1].count * points)

\* The length test without the comparison with the declared length.
lengthOkNonZero(actualSize, uncompressedSize) ==
    ~(actualSize = 0)

\* The test on lzfDecompress's return value.
lengthOk(actualSize, uncompressedSize) ==
    ~(actualSize = 0 \/ actualSize # uncompressedSize)

\* PCDParser::parseBinaryCompressedData.  The result tells whether it threw,
\* the columns, whether a byte outside the decompressed buffer or the
\* compressed buffer was read, and actualSize (what lzfDecompress returned;
\* 0 when it was not called).
parseBinaryCompressedData(body, header, junk) ==
    LET bytes == body.bytes
        compressedSize == LEValue(SubSeq(bytes, 1, 4))
        uncompressedSize == LEValue(SubSeq(bytes, 5, 8))
        Fail(msg) == [ok |-> FALSE, err |-> msg, fieldData |-> << >>, oob |-> FALSE,
                      actualSize |-> 0]
        \* the field loop reading buf, the vector lzfDecompress wrote into
        Columns(buf) ==
            [i \in 1..Len(header.fields) |->
               LET f == header.fields[i]
               IN Column(createStorage(f).rep,
                         IF Decodable(f)
                         THEN [pt \in 1..header.points |->
                                 ReadBytes(buf,
                                     compressedOffset(header.fields, header.points, i)
                                       + ((pt - 1) * f.size * f.count),
                                     f.size, junk)]
                         ELSE << >>)]
        \* what follows the call of lzfDecompress, dec being its outcome; the
        \* vector is zero-filled before lzfDecompress writes into it
        Decoded(dec) ==
            IF ~lengthOk(dec.ret, uncompressedSize)
            THEN [Fail("LZF decompression failed") EXCEPT !.oob = dec.oob,
                                                           !.actualSize = dec.ret]
            ELSE [ok |-> TRUE, err |-> "", actualSize |-> dec.ret,
                  fieldData |-> Columns(dec.out \o Zeros(uncompressedSize - Len(dec.out))),
                  oob |-> dec.oob \/
                          \E i \in 1..Len(header.fields) :
                             /\ Decodable(header.fields[i])
                             /\ header.points > 0
                             /\ compressedOffset(header.fields, header.points, i)
                                  + ((header.points - 1) * header.fields[i].size
                                                         * header.fields[i].count)
                                  + header.fields[i].size > uncompressedSize]
    IN IF Len(bytes) < 8 THEN Fail("Failed to read compressed data sizes")
       ELSE IF Len(bytes) - 8 < compressedSize THEN Fail("Failed to read compressed data")
       ELSE Decoded(lzfDecompress(SubSeq(bytes, 9, 8 + compressedSize),
                                  uncompressedSize, junk))

\* PCDParser::parse: [ok, err, data, oob, actualSize].
parse(file, junk) ==
    LET Fail(msg) == [ok |-> FALSE, err |-> msg,
                      data |-> PCDData(DefaultHeader, << >>), oob |-> FALSE,
                      actualSize |-> 0]
        Ok(header, fieldData) == [ok |-> TRUE, err |-> "", actualSize |-> 0,
                                  data |-> PCDData(header, fieldData), oob |-> FALSE]
        \* the binary_compressed branch, r being the decoder's outcome
        Compressed(header, r) ==
            IF r.ok
            THEN [Ok(header, r.fieldData) EXCEPT !.actualSize = r.actualSize,
                                                 !.oob = r.oob]
            ELSE [Fail(r.err) EXCEPT !.oob = r.oob, !.actualSize = r.actualSize]
        \* the dispatch on dataType, h being what parseHeader returned
        Dispatch(h) ==
            IF h.header.dataType = "ascii"
            THEN Ok(h.header, parseAsciiData(h.rest, h.header))
            ELSE IF h.header.dataType = "binary"
            THEN Ok(h.header, parseBinaryData(h.rest, h.header))
            ELSE IF h.header.dataType = "binary_compressed"
            THEN Compressed(h.header, parseBinaryCompressedData(h.rest, h.header, junk))
            ELSE Fail("Unknown data format")
    IN IF ~file.exists THEN Fail("Failed to open file")
       ELSE Dispatch(parseHeader(file))

\* ------------------------------------------------------------------------
\* Payload encoder and colour transcoder (pcd_parser.cpp)
\* ------------------------------------------------------------------------

RECURSIVE Concat(_)
Concat(ss) == IF Len(ss) = 0 THEN << >> ELSE ss[1] \o Concat(Tail(ss))

\* PCDParser::writeAscii: one row per point, a token for every column that
\* has a value at that point.
writeAscii(data) ==
    [pt \in 1..numPoints(data) |->
        Concat([f \in 1..Len(data.fieldData) |->
                  IF pt <= Len(data.fieldData[f].v)
                  THEN <<writeToken(data.fieldData[f].rep, data.fieldData[f].v[pt])>>
                  ELSE << >>])]

\* PCDParser::writeBinary: point-major, sizeof(T) bytes for every column
\* that has a value at that point.
writeBinary(data) ==
    Concat([pt \in 1..numPoints(data) |->
              Concat([f \in 1..Len(data.fieldData) |->
                        IF pt <= Len(data.fieldData[f].v)
                        THEN data.fieldData[f].v[pt]
                        ELSE << >>])])

\* The field-major buffer of writeBinaryCompressed: sizeof(T) * numPoints
\* bytes per column, zero where the column has no value.
compressedLayout(data) ==
    Concat([f \in 1..Len(data.fieldData) |->
              Concat([pt \in 1..numPoints(data) |->
                        IF pt <= Len(data.fieldData[f].v)
                        THEN data.fieldData[f].v[pt]
                        ELSE Zeros(RepSize(data.fieldData[f].rep))])])

\* PCDParser::writeBinaryCompressed: [ok, bytes].
writeBinaryCompressed(data) ==
    LET \* the size prefixes and the stream, c being lzfCompress's outcome
        Prefixed(totalSize, c) ==
            IF c.ret = 0 THEN [ok |-> FALSE, bytes |-> << >>]
            ELSE [ok |-> TRUE,
                  bytes |-> LEBytes(c.ret, 4) \o LEBytes(totalSize, 4)
                            \o SubSeq(c.out, 1, c.ret)]
        Packed(uncompressed) ==
            Prefixed(Len(uncompressed),
                     lzfCompress(uncompressed, ScratchLen(Len(uncompressed))))
    IN Packed(compressedLayout(data))

\* 0-based index of the first 4-byte float field named rgb, -1 if none.
rgbIndex(fields) ==
    LET hits == {i \in 1..Len(fields) :
                   ToLower(fields[i].name) = "rgb" /\ fields[i].type = "F"
                   /\ fields[i].size = 4}
    IN IF hits = {} THEN -1 ELSE (CHOOSE i \in hits : \A j \in hits : i <= j) - 1

\* 0-based index of the last 1-byte unsigned field with this name, -1 if none.
channelIndex(fields, name) ==
    LET hits == {i \in 1..Len(fields) :
                   ToLower(fields[i].name) = name /\ fields[i].type = "U"
                   /\ fields[i].size = 1}
    IN IF hits = {} THEN -1 ELSE (CHOOSE i \in hits : \A j \in hits : i >= j) - 1

\* unpackRGBForAscii
unpackRGBForAscii(input) ==
    LET rgbIdx == rgbIndex(input.header.fields)
        col == input.fieldData[rgbIdx + 1]
        chan(b) == Column("u8", [i \in 1..Len(col.v) |-> <<col.v[i][b]>>])
    IN IF rgbIdx < 0 THEN input
       ELSE IF col.rep # "f32" THEN input
       ELSE PCDData(
              [input.header EXCEPT !.fields =
                 Concat([i \in 1..Len(input.header.fields) |->
                           IF i = rgbIdx + 1
                           THEN <<Field("r", 1, "U", 1), Field("g", 1, "U", 1),
                                  Field("b", 1, "U", 1)>>
                           ELSE <<input.header.fields[i]>>])],
              Concat([i \in 1..Len(input.header.fields) |->
                        IF i = rgbIdx + 1
                        THEN <<chan(3), chan(2), chan(1)>>
                        ELSE <<input.fieldData[i]>>]))

\* The packed value with r and b exchanged: r | (g << 8) | (b << 16).
packedBGR(r, g, b) == <<r, g, b, 0>>

\* The packed value (r << 16) | (g << 8) | b, as the bytes of the float.
packedRGB(r, g, b) == <<b, g, r, 0>>

\* packRGBForBinary with the packed field put where g was.
packRGBForBinaryAtG(input, junk) ==
    LET rIdx == channelIndex(input.header.fields, "r")
        gIdx == channelIndex(input.header.fields, "g")
        bIdx == channelIndex(input.header.fields, "b")
        rVec == input.fieldData[rIdx + 1]
        gVec == input.fieldData[gIdx + 1]
        bVec == input.fieldData[bIdx + 1]
        at(vec, i) == IF i <= Len(vec.v) THEN vec.v[i][1] ELSE (junk + i) % 256
        rgbFloats == [i \in 1..Len(rVec.v) |->
                        packedRGB(rVec.v[i][1], at(gVec, i), at(bVec, i))]
    IN IF rIdx < 0 \/ gIdx < 0 \/ bIdx < 0 THEN input
       ELSE IF rVec.rep # "u8" \/ gVec.rep # "u8" \/ bVec.rep # "u8" THEN input
       ELSE PCDData(
              [input.header EXCEPT !.fields =
                 Concat([i \in 1..Len(input.header.fields) |->
                           IF i = gIdx + 1 THEN <<Field("rgb", 4, "F", 1)>>
                           ELSE IF i = rIdx + 1 \/ i = bIdx + 1 THEN << >>
                           ELSE <<input.header.fields[i]>>])],
              Concat([i \in 1..Len(input.header.fields) |->
                        IF i = gIdx + 1 THEN <<Column("f32", rgbFloats)>>
                        ELSE IF i = rIdx + 1 \/ i = bIdx + 1 THEN << >>
                        ELSE <<input.fieldData[i]>>]))

\* packRGBForBinary.  The loop runs over the length of the r column; a g or
\* b column that is shorter is read past its end (junk).
packRGBForBinary(input, junk) ==
    LET rIdx == channelIndex(input.header.fields, "r")
        gIdx == channelIndex(input.header.fields, "g")
        bIdx == channelIndex(input.header.fields, "b")
        rVec == input.fieldData[rIdx + 1]
        gVec == input.fieldData[gIdx + 1]
        bVec == input.fieldData[bIdx + 1]
        at(vec, i) == IF i <= Len(vec.v) THEN vec.v[i][1] ELSE (junk + i) % 256
        rgbFloats == [i \in 1..Len(rVec.v) |->
                        packedRGB(rVec.v[i][1], at(gVec, i), at(bVec, i))]
    IN IF rIdx < 0 \/ gIdx < 0 \/ bIdx < 0 THEN input
       ELSE IF rVec.rep # "u8" \/ gVec.rep # "u8" \/ bVec.rep # "u8" THEN input
       ELSE PCDData(
              [input.header EXCEPT !.fields =
                 Concat([i \in 1..Len(input.header.fields) |->
                           IF i = rIdx + 1 THEN <<Field("rgb", 4, "F", 1)>>
                           ELSE IF i = gIdx + 1 \/ i = bIdx + 1 THEN << >>
                           ELSE <<input.header.fields[i]>>])],
              Concat([i \in 1..Len(input.header.fields) |->
                        IF i = rIdx + 1 THEN <<Column("f32", rgbFloats)>>
                        ELSE IF i = gIdx + 1 \/ i = bIdx + 1 THEN << >>
                        ELSE <<input.fieldData[i]>>]))

\* ------------------------------------------------------------------------
\* File operations (pcd_parser.cpp)
\* ------------------------------------------------------------------------

\* Header lines with WIDTH, HEIGHT and POINTS taken from the cloud's header.
headerLinesTrusting(outputData, format) ==
    LET fs == outputData.header.fields
    IN [exists |-> TRUE,
        names |-> [i \in 1..Len(fs) |-> fs[i].name],
        sizes |-> [i \in 1..Len(fs) |-> fs[i].size],
        types |-> [i \in 1..Len(fs) |-> fs[i].type],
        counts |-> [i \in 1..Len(fs) |-> fs[i].count],
        width |-> outputData.header.width, height |-> outputData.header.height,
        points |-> outputData.header.points,
        hasData |-> TRUE,
        dataArgs |-> IF format = "" THEN << >> ELSE <<format>>,
        body |-> BytesBody(<< >>)]

\* The header lines write emits for outputData and format.
headerLines(outputData, format) ==
    LET fs == outputData.header.fields
    IN [exists |-> TRUE,
        names |-> [i \in 1..Len(fs) |-> fs[i].name],
        sizes |-> [i \in 1..Len(fs) |-> fs[i].size],
        types |-> [i \in 1..Len(fs) |-> fs[i].type],
        counts |-> [i \in 1..Len(fs) |-> fs[i].count],
        width |-> numPoints(outputData), height |-> 1,
        points |-> numPoints(outputData),
        hasData |-> TRUE,
        dataArgs |-> IF format = "" THEN << >> ELSE <<format>>,
        body |-> BytesBody(<< >>)]

\* PCDParser::write(filepath, data, format): [ok, file], file being what the
\* path holds when the call returns or throws.  The file is opened (and so
\* emptied) and the header written before the payload is encoded.
write(data, format, junk) ==
    LET isBinary == format = "binary" \/ format = "binary_compressed"
        \* the binary_compressed branch, w being the encoder's outcome
        Compressed(head, w) ==
            IF w.ok THEN [ok |-> TRUE, file |-> [head EXCEPT !.body = BytesBody(w.bytes)]]
            ELSE [ok |-> FALSE, file |-> head]
        Payload(outputData, head) ==
            IF format = "binary_compressed"
            THEN Compressed(head, writeBinaryCompressed(outputData))
            ELSE IF format = "binary"
            THEN [ok |-> TRUE,
                  file |-> [head EXCEPT !.body = BytesBody(writeBinary(outputData))]]
            ELSE [ok |-> TRUE,
                  file |-> [head EXCEPT !.body = TextBody(writeAscii(outputData))]]
        Emit(outputData) == Payload(outputData, headerLines(outputData, format))
    IN Emit(IF ~isBinary THEN unpackRGBForAscii(data) ELSE packRGBForBinary(data, junk))

\* updateLabelsWithFormat that writes ascii when no format is given.
updateLabelsAsciiDefault(file, labels, format, junk) ==
    LET Written(p, w) == [ok |-> w.ok, file |-> w.file, parsed |-> p.data]
        Store(p, data) ==
            Written(p, write(data, IF format = "" THEN "ascii" ELSE format, junk))
        Update(p) ==
            IF ~p.ok THEN [ok |-> FALSE, file |-> file, parsed |-> p.data]
            ELSE Store(p, setLabels(p.data, labels))
    IN Update(parse(file, junk))

\* PCDParser::updateLabelsWithFormat: [ok, file, parsed], parsed being the
\* cloud it read from the file before it replaced the labels.
updateLabelsWithFormat(file, labels, format, junk) ==
    LET Written(p, w) == [ok |-> w.ok, file |-> w.file, parsed |-> p.data]
        Store(p, data) ==
            Written(p, write(data,
                             IF format = "" THEN data.header.dataType ELSE format,
                             junk))
        Update(p) ==
            IF ~p.ok THEN [ok |-> FALSE, file |-> file, parsed |-> p.data]
            ELSE Store(p, setLabels(p.data, labels))
    IN Update(parse(file, junk))

\* PCDParser::convertFormat: [ok, file].
convertFormat(file, format, junk) ==
    LET Convert(p) ==
            IF ~p.ok THEN [ok |-> FALSE, file |-> file]
            ELSE write(p.data, format, junk)
    IN Convert(parse(file, junk))

\* ------------------------------------------------------------------------
\* Views of a cloud in memory (pcd_parser.h)
\* ------------------------------------------------------------------------

\* The test hasRGB and getRGB apply to the packed field: float32 or uint32.
IsPacked32(field) ==
    \/ field.type = "F" /\ field.size = 4
    \/ field.type = "U" /\ field.size = 4

\* hasRGB with either packed field accepted.
hasRGBAnyPacked(data) ==
    LET fs == data.header.fields
        rgbIdx == findField(fs, "rgb")
        rgbaIdx == findField(fs, "rgba")
    IN \/ findField(fs, "r") >= 0 /\ findField(fs, "g") >= 0 /\ findField(fs, "b") >= 0
       \/ rgbIdx >= 0 /\ IsPacked32(fs[rgbIdx + 1])
       \/ rgbaIdx >= 0 /\ IsPacked32(fs[rgbaIdx + 1])

\* PCDData::hasRGB
hasRGB(data) ==
    LET fs == data.header.fields
        rgbIdx == findField(fs, "rgb")
        rgbaIdx == findField(fs, "rgba")
        packedIdx == IF rgbIdx >= 0 THEN rgbIdx ELSE rgbaIdx
    IN IF findField(fs, "r") >= 0 /\ findField(fs, "g") >= 0 /\ findField(fs, "b") >= 0
       THEN TRUE
       ELSE IF packedIdx >= 0 /\ packedIdx < Len(fs)
       THEN IsPacked32(fs[packedIdx + 1])
       ELSE FALSE

\* One more than the little-endian number b, on Len(b) bytes.
RECURSIVE Incr(_)
Incr(b) ==
    IF Len(b) = 0 THEN << >>
    ELSE IF b[1] < 255 THEN <<b[1] + 1>> \o Tail(b)
    ELSE <<0>> \o Incr(Tail(b))

\* The two's complement of b.
NegBytes(b) == Incr([i \in 1..Len(b) |-> 255 - b[i]])

\* The bits (sign aside) of the float nearest to the unsigned 32-bit number
\* b, ties to even.
MagToBits(b) ==
    LET hi == b[2] + (256 * b[3]) + (65536 * b[4])
        lo == b[1]
        m == (256 * hi) + lo
        Small(e) == ((127 + e) * Pow2(23)) + ((m - Pow2(e)) * Pow2(23 - e))
        Large(e, shift) ==
            LET q == (hi * Pow2(8 - shift)) + (lo \div Pow2(shift))
                rem == lo % Pow2(shift)
                half == Pow2(shift - 1)
                up == IF rem > half \/ (rem = half /\ q % 2 = 1) THEN 1 ELSE 0
            IN ((127 + e) * Pow2(23)) + (q - Pow2(23)) + up
    IN IF hi = 0 /\ lo = 0 THEN 0
       ELSE IF hi < 65536 THEN Small(Log2(m))
       ELSE Large(Log2(hi) + 8, Log2(hi) - 15)

\* The float with the sign and the other 31 bits.
F32Bits(sign, bits) == [LEBytes(bits, 4) EXCEPT ![4] = @ + (128 * sign)]

\* static_cast<float> of a double q whose value is zero or in the range of
\* the normal floats, ties to even; larger ones give infinity.  Doubles
\* below the normal floats are not among the modelled inputs (zero here).
F64ToF32(q) ==
    LET sign == q[8] \div 128
        e11 == ((q[8] % 128) * 16) + (q[7] \div 16)
        e8 == e11 - 896
        top == ((q[7] % 16) * Pow2(19)) + (q[6] * Pow2(11)) + (q[5] * 8) + (q[4] \div 32)
        rem == ((q[4] % 32) * Pow2(24)) + (q[3] * 65536) + (q[2] * 256) + q[1]
        up == IF rem > Pow2(28) \/ (rem = Pow2(28) /\ top % 2 = 1) THEN 1 ELSE 0
    IN IF e8 <= 0 THEN F32Bits(sign, 0)
       ELSE IF e8 >= 255 THEN F32Bits(sign, 255 * Pow2(23))
       ELSE F32Bits(sign, (e8 * Pow2(23)) + top + up)

\* static_cast<float> of one column value.
ToFloat(rep, val) ==
    LET neg == RepIsSigned(rep) /\ val[Len(val)] >= 128
        ext == SubSeq(Ext64(rep, val), 1, 4)
    IN CASE rep = "f32" -> val
         [] rep = "f64" -> F64ToF32(val)
         [] OTHER -> F32Bits(IF neg THEN 1 ELSE 0,
                             MagToBits(IF neg THEN NegBytes(ext) ELSE ext))

\* PCDData::getFieldAsFloat(idx)
getFieldAsFloat(data, idx) ==
    IF idx < 0 \/ idx >= Len(data.fieldData) THEN << >>
    ELSE [i \in 1..Len(data.fieldData[idx + 1].v) |->
            ToFloat(data.fieldData[idx + 1].rep, data.fieldData[idx + 1].v[i])]

\* static_cast<uint32_t> of a float with the sign bit, the exponent field e8
\* and the 23 fraction bits: the integer part, which must fit (otherwise
\* the behaviour is undefined: any value).
FloatToU32(sign, e8, frac, junk) ==
    LET x == Pow2(23) + frac
        e == e8 - 127
        k == e - 23
    IN IF e < 0 THEN Zeros(4)
       ELSE IF sign = 1 \/ e > 31 THEN <<junk, junk, junk, junk>>
       ELSE IF e <= 23 THEN LEBytes(x \div Pow2(23 - e), 4)
       ELSE LEBytes((x % Pow2(24 - k)) * Pow2(k), 3) \o <<x \div Pow2(24 - k)>>

\* static_cast<uint32_t> of one column value.  A double is taken by the 23
\* leading bits of its fraction: exact for the doubles of the model, whose
\* integer part is below 2^24.
ToU32(rep, val, junk) ==
    CASE rep = "f32" ->
           FloatToU32(val[4] \div 128, ((val[4] % 128) * 2) + (val[3] \div 128),
                      ((val[3] % 128) * 65536) + (val[2] * 256) + val[1], junk)
      [] rep = "f64" ->
           FloatToU32(val[8] \div 128,
                      Min(255, Max(0, (((val[8] % 128) * 16) + (val[7] \div 16)) - 896)),
                      ((val[7] % 16) * Pow2(19)) + (val[6] * Pow2(11)) + (val[5] * 8)
                        + (val[4] \div 32), junk)
      [] OTHER -> SubSeq(Ext64(rep, val), 1, 4)

\* PCDData::getLabels
getLabels(data, junk) ==
    LET idx == findField(data.header.fields, "label")
    IN IF idx < 0 THEN [i \in 1..numPoints(data) |-> Zeros(4)]
       ELSE [i \in 1..Len(data.fieldData[idx + 1].v) |->
               ToU32(data.fieldData[idx + 1].rep, data.fieldData[idx + 1].v[i], junk)]

\* getPositions with the length of the x column as the number of points.
getPositionsByX(data) ==
    LET fs == data.header.fields
        xIdx == findField(fs, "x")
        yIdx == findField(fs, "y")
        zIdx == findField(fs, "z")
        xData == getFieldAsFloat(data, xIdx)
        yData == getFieldAsFloat(data, yIdx)
        zData == getFieldAsFloat(data, zIdx)
    IN IF xIdx < 0 \/ yIdx < 0 \/ zIdx < 0 THEN << >>
       ELSE [k \in 1..(3 * Len(xData)) |->
               LET i == ((k - 1) \div 3) + 1
                   vec == CASE k % 3 = 1 -> xData
                            [] k % 3 = 2 -> yData
                            [] OTHER -> zData
               IN IF i <= Len(vec) THEN vec[i] ELSE Zeros(4)]

\* PCDData::getPositions
getPositions(data) ==
    LET fs == data.header.fields
        xIdx == findField(fs, "x")
        yIdx == findField(fs, "y")
        zIdx == findField(fs, "z")
        xData == getFieldAsFloat(data, xIdx)
        yData == getFieldAsFloat(data, yIdx)
        zData == getFieldAsFloat(data, zIdx)
        n == Min(Len(xData), Min(Len(yData), Len(zData)))
    IN IF xIdx < 0 \/ yIdx < 0 \/ zIdx < 0 THEN << >>
       ELSE [k \in 1..(3 * n) |->
               CASE k % 3 = 1 -> xData[((k - 1) \div 3) + 1]
                 [] k % 3 = 2 -> yData[((k - 1) \div 3) + 1]
                 [] OTHER -> zData[((k - 1) \div 3) + 1]]

\* Floats in order: the key of a float is its bits read as sign and
\* magnitude; a NaN compares false with everything.
F32Key(b) ==
    LET mag == b[1] + (256 * b[2]) + (65536 * b[3]) + (16777216 * (b[4] % 128))
    IN IF b[4] >= 128 THEN 0 - mag ELSE mag

F32IsNaN(b) == b[4] % 128 = 127 /\ b[3] >= 128 /\ ~(b[1] = 0 /\ b[2] = 0 /\ b[3] = 128)

F32Less(a, b) == ~F32IsNaN(a) /\ ~F32IsNaN(b) /\ F32Key(a) < F32Key(b)

\* std::max(a, b)
F32Max(a, b) == IF F32Less(a, b) THEN b ELSE a

F32One == <<0, 0, 128, 63>>

\* One value getRGB returns: the float num, and what was done to it last:
\*   "set"   stored as it is (the zero the vector starts with)
\*   "mul"   multiplied by the scale 1.0f
\*   "mul255th"  multiplied by the scale 1.0f / 255.0f
\*   "div255"    divided by 255.0f
Shade(num, op) == [num |-> num, op |-> op]

\* Element i of a float vector, or what lies behind its end.
FloatAt(vec, i, junk) == IF i <= Len(vec) THEN vec[i] ELSE <<junk, junk, junk, junk>>

\* getRGB, lines 242-245: the maximum of the channels of the first
\* min(n, rData.size()) points, gData and bData read unchecked.
RECURSIVE maxChannel(_, _, _, _, _)
maxChannel(rData, gData, bData, count, junk) ==
    IF count = 0 THEN Zeros(4)
    ELSE F32Max(maxChannel(rData, gData, bData, count - 1, junk),
                F32Max(rData[count],
                       F32Max(FloatAt(gData, count, junk),
                              FloatAt(bData, count, junk))))

\* PCDData::getRGB
getRGB(data, junk) ==
    LET n == numPoints(data)
        fs == data.header.fields
        rIdx == findField(fs, "r")
        gIdx == findField(fs, "g")
        bIdx == findField(fs, "b")
        rgbIdx == findField(fs, "rgb")
        rgbaIdx == findField(fs, "rgba")
        packedIdx == IF rgbIdx >= 0 THEN rgbIdx ELSE rgbaIdx
        Channels(rData, gData, bData) ==
            LET Scaled(scale) ==
                    [k \in 1..(3 * n) |->
                       LET i == ((k - 1) \div 3) + 1
                           vec == CASE k % 3 = 1 -> rData
                                    [] k % 3 = 2 -> gData
                                    [] OTHER -> bData
                       IN Shade(IF i <= Len(vec) THEN vec[i] ELSE Zeros(4), scale)]
                Pick(maxVal) == Scaled(IF F32Less(F32One, maxVal) THEN "mul255th" ELSE "mul")
            IN Pick(maxChannel(rData, gData, bData, Min(n, Len(rData)), junk))
        Packed(vec) ==
            [k \in 1..(3 * n) |->
               LET i == ((k - 1) \div 3) + 1
                   byte == CASE k % 3 = 1 -> 3
                             [] k % 3 = 2 -> 2
                             [] OTHER -> 1
               IN IF i <= Len(vec) THEN Shade(IntToF32(vec[i][byte]), "div255")
                  ELSE Shade(Zeros(4), "set")]
    IN IF n = 0 THEN << >>
       ELSE IF rIdx >= 0 /\ gIdx >= 0 /\ bIdx >= 0
       THEN Channels(getFieldAsFloat(data, rIdx), getFieldAsFloat(data, gIdx),
                     getFieldAsFloat(data, bIdx))
       ELSE IF packedIdx >= 0
               /\ fs[packedIdx + 1].type = "F" /\ fs[packedIdx + 1].size = 4
               /\ data.fieldData[packedIdx + 1].rep = "f32"
       THEN Packed(data.fieldData[packedIdx + 1].v)
       ELSE IF packedIdx >= 0
               /\ fs[packedIdx + 1].type = "U" /\ fs[packedIdx + 1].size = 4
               /\ data.fieldData[packedIdx + 1].rep = "u32"
       THEN Packed(data.fieldData[packedIdx + 1].v)
       ELSE << >>

\* ------------------------------------------------------------------------
\* State
\* ------------------------------------------------------------------------

VARIABLES
    call,   \* the codec call under observation: its arguments and its result
    disk,   \* the file at the path the file operations work on
    last,   \* the last file operation: its arguments and its outcome
    colour, \* the colour transcoder call under observation
    mem     \* the call on a cloud in memory under observation

vars == <<call, disk, last, colour, mem>>

\* ------------------------------------------------------------------------
\* LZF codec: inputs and calls
\* ------------------------------------------------------------------------

MaxBufLen == 5
MaxRunLen == 12
MaxRampLen == 40
LongRunLen == 270
MaxSrcLen == 4
MaxOutLen == 5

RECURSIVE SeqsUpTo(_, _)
SeqsUpTo(S, n) ==
    IF n = 0 THEN {<< >>}
    ELSE LET T == SeqsUpTo(S, n - 1)
         IN T \cup {Append(t, x) : t \in {u \in T : Len(u) = n - 1}, x \in S}

\* The pattern p repeated to n bytes.
Repeat(p, n) == [i \in 1..n |-> p[((i - 1) % Len(p)) + 1]]

\* n bytes counting up from 0: no three-byte group occurs twice.
Ramp(n) == [i \in 1..n |-> (i - 1) % 256]

\* Bytes 0, 1 and 8: the groups (0,0,8) and (1,0,0) have the same hash.
LzfAlphabet == {0, 1, 8}

Buffers ==
    SeqsUpTo(LzfAlphabet, MaxBufLen)
    \cup {Repeat(p, n) : p \in SeqsUpTo(LzfAlphabet, 2) \ {<< >>}, n \in 1..MaxRunLen}
    \cup {Repeat(<<7>>, LongRunLen)}
    \cup {Ramp(n) : n \in (MaxRampLen - 8)..MaxRampLen}
    \cup {Ramp(MaxRampLen) \o Ramp(k) : k \in 3..5}

\* Control bytes of every instruction kind, and small data bytes.
SrcAlphabet == {0, 1, 32, 33, 224}
Sources == SeqsUpTo(SrcAlphabet, MaxSrcLen)
JunkSeeds == {0, 1, 255}

NoComp == [ret |-> 0, out |-> << >>]
NoDec == [ret |-> 0, out |-> << >>, oob |-> FALSE, wrote |-> FALSE, under |-> FALSE,
          reject |-> "none"]
Idle == [fn |-> "idle", in |-> << >>, out_len |-> 0, comp |-> NoComp, dec |-> NoDec]

NoCloud == PCDData(DefaultHeader, << >>)
\* last is
\*   op, ok       the operation and whether it returned (TRUE) or threw
\*   fmt, labels  its format and label arguments
\*   before       the file at the path when it was called
\*   actualSize   what lzfDecompress returned to it (parse)
\*   res          the cloud it returned (parse)
\*   seen         the cloud updateLabels read before it replaced the labels
\*   prev         the operation before it, with its outcome and format
\*   arg          the cloud given to the write that made the file
NoOp == [op |-> "none", ok |-> TRUE, fmt |-> "", labels |-> << >>,
         before |-> NoFile, actualSize |-> 0, res |-> NoCloud, seen |-> NoCloud,
         prev |-> [op |-> "none", ok |-> TRUE, fmt |-> ""], arg |-> NoCloud]
NoColour == [fn |-> "idle", in |-> NoCloud, out |-> NoCloud]

\* No call on a cloud in memory yet.  fn names the member function, cloud
\* the object before the call, after the object after it, name and labels
\* the arguments, ret what was returned, sets the setLabels calls so far.
NoMem == [fn |-> "idle", cloud |-> NoCloud, after |-> NoCloud, name |-> "",
          labels |-> << >>, ret |-> << >>, sets |-> 0]

InitLzf == call = Idle /\ disk = NoFile /\ last = NoOp /\ colour = NoColour /\ mem = NoMem

\* lzfCompress(B) into the scratch buffer the encoder allocates.
Compress ==
    /\ call.fn = "idle"
    /\ \E B \in Buffers :
         call' = [fn |-> "compress", in |-> B, out_len |-> ScratchLen(Len(B)),
                  comp |-> lzfCompress(B, ScratchLen(Len(B))), dec |-> NoDec]
    /\ UNCHANGED <<disk, last, colour, mem>>

\* lzfDecompress of what Compress produced, expecting Len(B) bytes.
RoundTrip ==
    /\ call.fn = "compress"
    /\ call.comp.ret > 0
    /\ \E junk \in JunkSeeds :
         call' = [call EXCEPT !.fn = "roundtrip",
                    !.dec = lzfDecompress(SubSeq(call.comp.out, 1, call.comp.ret),
                                          Len(call.in), junk)]
    /\ UNCHANGED <<disk, last, colour, mem>>

\* lzfDecompress of an arbitrary source buffer.
Decompress ==
    /\ call.fn = "idle"
    /\ \E src \in Sources, out_len \in 0..MaxOutLen, junk \in JunkSeeds :
         call' = [fn |-> "decompress", in |-> src, out_len |-> out_len,
                  comp |-> NoComp, dec |-> lzfDecompress(src, out_len, junk)]
    /\ UNCHANGED <<disk, last, colour, mem>>

NextLzf == Compress \/ RoundTrip \/ Decompress

SpecLzf == InitLzf /\ [][NextLzf]_vars

\* ------------------------------------------------------------------------
\* Claims about the LZF codec
\* ------------------------------------------------------------------------

\* C1 (as stated): for every byte buffer B, the empty one included,
\* lzfCompress(B) into a scratch buffer of len(B) + len(B)/8 + 16 bytes
\* succeeds, and lzfDecompress of its output with expected length len(B)
\* returns exactly B.
C1_RoundTripAllBuffers ==
    /\ call.fn = "compress" => call.comp.ret > 0
    /\ call.fn = "roundtrip" => call.dec.ret = Len(call.in) /\ call.dec.out = call.in

\* The round trip for the buffers of at least one byte.
RoundTripNonEmpty ==
    /\ call.fn = "compress" /\ call.in # << >> => call.comp.ret > 0
    /\ call.fn = "roundtrip" =>
         /\ call.dec.ret = Len(call.in)
         /\ call.dec.out = call.in
         /\ ~call.dec.oob

\* C8 (as stated): lzfDecompress never reads a source byte at an index
\* >= in_len; an input that ends in the middle of an instruction makes it
\* return 0.
C8_NoReadPastInput ==
    call.fn \in {"decompress", "roundtrip"} => ~call.dec.oob

\* C9: lzfDecompress never writes an output byte at an index >= out_len and
\* never copies from an output index below 0; an instruction that would do
\* either is rejected with return value 0 before any of its bytes is
\* produced, so the output stays within out_len.
C9_OutputInBounds ==
    call.fn \in {"decompress", "roundtrip"} =>
        /\ ~call.dec.wrote
        /\ ~call.dec.under
        /\ Len(call.dec.out) <= call.out_len
        /\ call.dec.reject # "none" => call.dec.ret = 0

\* A back reference before the start of the output, met after some output
\* was produced, and rejected.
C9_Witness ==
    /\ call.fn = "decompress"
    /\ call.dec.reject = "backref"
    /\ Len(call.dec.out) > 0
    /\ call.dec.ret = 0

\* ------------------------------------------------------------------------
\* File operations: inputs and calls
\* ------------------------------------------------------------------------

MaxPoints == 2
MaxLabels == 3
MaxPayloadLen == 3

Formats == {"ascii", "binary", "binary_compressed"}

\* Field lists of the clouds a caller assembles: plain coordinates, a label
\* after and before them, a field with count 2, an 8-byte integer (stored
\* in the fallback float column), separate and packed colour, a 1-byte
\* label, a signed 16-bit field and a double.
FieldLists ==
    { <<Field("x", 4, "F", 1)>>,
      <<Field("x", 4, "F", 1), Field("label", 4, "U", 1)>>,
      <<Field("label", 4, "U", 1), Field("x", 4, "F", 1)>>,
      <<Field("x", 4, "F", 2)>>,
      <<Field("t", 8, "I", 1)>>,
      <<Field("x", 4, "F", 1), Field("t", 8, "U", 1)>>,
      <<Field("r", 1, "U", 1), Field("g", 1, "U", 1), Field("b", 1, "U", 1)>>,
      <<Field("x", 4, "F", 1), Field("rgb", 4, "F", 1)>>,
      <<Field("x", 4, "F", 1), Field("label", 1, "U", 1)>>,
      <<Field("i", 2, "I", 1)>>,
      <<Field("d", 8, "F", 1)>> }

\* The values a column of field f takes: two per field.  Floats: 1.0 and
\* 7.0000005 (0x40E00001); packed colours 0x00FF8000 and 0xFF102030;
\* doubles 0.0 and 1.0; integers of both signs.
FieldValues(f) ==
    LET rep == StorageRep(f.type, f.size)
    IN CASE ToLower(f.name) = "rgb" -> {<<0, 128, 255, 0>>, <<48, 32, 16, 255>>}
         [] rep = "f32" -> {<<0, 0, 128, 63>>, <<1, 0, 224, 64>>}
         [] rep = "f64" -> {Zeros(8), <<0, 0, 0, 0, 0, 0, 240, 63>>}
         [] rep = "u8" -> {<<0>>, <<200>>}
         [] rep = "i16" -> {<<1, 0>>, <<254, 255>>}
         [] rep = "u32" -> {<<1, 0, 0, 0>>, <<2, 1, 0, 0>>}
         [] OTHER -> {Zeros(RepSize(rep))}

\* All sequences of length n over S.
SeqsOfLen(S, n) == {t \in SeqsUpTo(S, n) : Len(t) = n}

\* The column sets of a field list, for n points.
RECURSIVE ColumnsFor(_, _, _)
ColumnsFor(fs, n, i) ==
    IF i > Len(fs) THEN {<< >>}
    ELSE {<<Column(StorageRep(fs[i].type, fs[i].size), v)>> \o rest :
            v \in SeqsOfLen(FieldValues(fs[i]), n),
            rest \in ColumnsFor(fs, n, i + 1)}

\* The valid clouds: columns.length = fields.length, all columns of one
\* length, each in the representation createStorage selects.
ValidClouds ==
    UNION {{PCDData([DefaultHeader EXCEPT !.fields = fs], cols) :
              cols \in ColumnsFor(fs, n, 1)} :
           fs \in FieldLists, n \in 0..MaxPoints}

\* The label sequences: one of every length, with values 7, 8, 9, ... that
\* no cloud holds (the code copies labels and never looks at them).
LabelSeqs == {[i \in 1..n |-> <<6 + i, 0, 0, 0>>] : n \in 0..MaxLabels}

\* Files that were not written by write.
ForeignHeader(names, sizes, types, points, hasData, dataArgs, body) ==
    [exists |-> TRUE, names |-> names, sizes |-> sizes, types |-> types,
     counts |-> [i \in 1..Len(names) |-> 1], width |-> points, height |-> 1,
     points |-> points, hasData |-> hasData, dataArgs |-> dataArgs, body |-> body]

OneRow == <<<<Token("flt", <<0, 0, 128, 63>>), Token("int", <<7, 0, 0, 0, 0, 0, 0, 0>>)>>>>

\* Rows of an ascii payload for the fields x (F 4) and label (U 4): a full
\* row, one whose first token is not a number, one that is short, and one
\* with a token too many.
AsciiRowPool ==
    { <<Token("flt", <<0, 0, 128, 63>>), Token("int", <<7, 0, 0, 0, 0, 0, 0, 0>>)>>,
      <<Token("bad", << >>), Token("int", <<8, 0, 0, 0, 0, 0, 0, 0>>)>>,
      <<Token("flt", <<1, 0, 224, 64>>)>>,
      <<Token("flt", <<0, 0, 128, 63>>), Token("bad", << >>),
        Token("int", <<9, 0, 0, 0, 0, 0, 0, 0>>)>> }

ForeignFiles ==
    \* ascii payloads of two rows
    { ForeignHeader(<<"x", "label">>, <<4, 4>>, <<"F", "U">>, 2, TRUE, <<"ascii">>,
                    TextBody(<<r1, r2>>)) : r1 \in AsciiRowPool, r2 \in AsciiRowPool }
    \cup
    \* a header without DATA line, a DATA line without a word, an unknown word
    { ForeignHeader(<<"x", "label">>, <<4, 4>>, <<"F", "U">>, 1, hd, da, TextBody(OneRow)) :
        hd \in BOOLEAN, da \in {<< >>, <<"foo">>, <<"ascii">>} }
    \* binary payloads of every length up to two points of two bytes
    \cup { ForeignHeader(<<"a", "b">>, <<1, 1>>, <<"U", "U">>, 2, TRUE, <<"binary">>,
                         BytesBody(b)) : b \in SeqsUpTo({5}, 4) }
    \* compressed payloads: declared lengths and LZF streams of every kind
    \cup { ForeignHeader(<<"a">>, <<1>>, <<"U">>, u, TRUE, <<"binary_compressed">>,
                         BytesBody(LEBytes(Len(src), 4) \o LEBytes(u, 4) \o src)) :
             src \in SeqsUpTo(SrcAlphabet, MaxPayloadLen), u \in 0..MaxPayloadLen }
    \* compressed payloads cut short
    \cup { ForeignHeader(<<"a">>, <<1>>, <<"U">>, 1, TRUE, <<"binary_compressed">>,
                         BytesBody(b)) :
             b \in {<< >>, <<2, 0, 0, 0>>, <<2, 0, 0, 0, 1, 0, 0, 0, 0>>} }
    \* a compressed payload of one byte (a literal run holding 5) under a
    \* header that announces two points
    \cup { ForeignHeader(<<"a">>, <<1>>, <<"U">>, 2, TRUE, <<"binary_compressed">>,
                         BytesBody(LEBytes(2, 4) \o LEBytes(1, 4) \o <<0, 5>>)) }

Init == call = Idle /\ disk = NoFile /\ last = NoOp /\ colour = NoColour /\ mem = NoMem

\* The memory contents to consider for an operation on file: one suffices
\* unless decoding the file reads outside a buffer or yields colour columns
\* of different lengths (the only reads that depend on it).
JunksFor(file) ==
    LET Seeds(p) ==
            IF p.oob \/ \E i, j \in 1..Len(p.data.fieldData) :
                           Len(p.data.fieldData[i].v) # Len(p.data.fieldData[j].v)
            THEN JunkSeeds ELSE {0}
    IN Seeds(parse(file, 0))

\* A behaviour is a file that a caller wrote or that came from elsewhere,
\* one file operation applied to it, and a parse of what updateLabels left.

Prev == [op |-> last.op, ok |-> last.ok, fmt |-> last.fmt]

\* A caller writes a cloud it has assembled.
Write ==
    /\ last.op = "none"
    /\ \E C \in ValidClouds, E \in Formats :
         \E r \in {write(C, E, 0)} :
            /\ disk' = r.file
            /\ last' = [NoOp EXCEPT !.op = "write", !.ok = r.ok, !.fmt = E, !.arg = C]
    /\ UNCHANGED <<call, colour, mem>>

\* A file from another program is put at the path.
Foreign ==
    /\ last.op = "none"
    /\ \E f \in ForeignFiles :
         /\ disk' = f
         /\ last' = [NoOp EXCEPT !.op = "foreign"]
    /\ UNCHANGED <<call, colour, mem>>

\* parse(path); p is what it returns.
Parse ==
    /\ last.op \in {"write", "foreign", "updateLabels"}
    /\ \E junk \in JunksFor(disk) :
         \E p \in {parse(disk, junk)} :
            last' = [last EXCEPT !.op = "parse", !.ok = p.ok, !.fmt = "",
                       !.before = disk, !.actualSize = p.actualSize,
                       !.res = p.data, !.prev = Prev]
    /\ UNCHANGED <<disk, call, colour, mem>>

\* updateLabels(path, labels, format); format "" is the call without one.
UpdateLabels ==
    /\ last.op \in {"write", "foreign"}
    /\ \E L \in LabelSeqs, fmt \in Formats \cup {""}, junk \in JunksFor(disk) :
         \E r \in {updateLabelsWithFormat(disk, L, fmt, junk)} :
            /\ disk' = r.file
            /\ last' = [last EXCEPT !.op = "updateLabels", !.ok = r.ok, !.fmt = fmt,
                           !.labels = L, !.before = disk, !.seen = r.parsed,
                           !.prev = Prev]
    /\ UNCHANGED <<call, colour, mem>>

\* convertFormat(path, format)
ConvertFormat ==
    /\ last.op \in {"write", "foreign"}
    /\ \E fmt \in Formats, junk \in JunksFor(disk) :
         \E r \in {convertFormat(disk, fmt, junk)} :
            /\ disk' = r.file
            /\ last' = [last EXCEPT !.op = "convertFormat", !.ok = r.ok, !.fmt = fmt,
                           !.before = disk, !.prev = Prev]
    /\ UNCHANGED <<call, colour, mem>>

Next == Write \/ Foreign \/ Parse \/ UpdateLabels \/ ConvertFormat

Spec == Init /\ [][Next]_vars

\* The behaviours that only read: a file is written or supplied, and parsed.
NextDecode == Write \/ Foreign \/ Parse

SpecDecode == Init /\ [][NextDecode]_vars

\* The behaviours that end with a label update: a file is written or
\* supplied, and updateLabels rewrites it.
NextUpdate == Write \/ Foreign \/ UpdateLabels

SpecUpdate == Init /\ [][NextUpdate]_vars

\* The decoders only meet payloads of the kind they read (or empty ones).
BodyKindMatches ==
    disk.exists =>
      LET dt == parseHeader(disk).header.dataType
      IN /\ dt = "ascii" => disk.body.kind = "text" \/ disk.body.bytes = << >>
         /\ dt \in {"binary", "binary_compressed"} =>
              disk.body.kind = "bytes" \/ disk.body.rows = << >>

\* ------------------------------------------------------------------------
\* Claims about the file operations
\* ------------------------------------------------------------------------

\* The file parse read was made by write from the cloud last.arg.
ParsedWritten == last.op = "parse" /\ last.prev.op = "write"

\* The field of cloud named as field i of cloud c holds c's values.
SameValues(c, i, cloud) ==
    LET idx == findField(cloud.header.fields, c.header.fields[i].name)
    IN /\ idx >= 0
       /\ cloud.fieldData[idx + 1].v = c.fieldData[i].v

\* C2 (as stated): for every valid cloud C and every encoding E, write(C, E)
\* succeeds, and parsing the written file yields a cloud with as many points
\* as C.
C2_WritePreservesPointCount ==
    /\ last.op = "write" => last.ok
    /\ ParsedWritten => last.ok /\ numPoints(last.res) = numPoints(last.arg)

\* C3 (as stated): for every valid cloud C and E in {binary,
\* binary_compressed}, parsing the file write(C, E) made yields every field
\* of C with values equal to C's bit for bit.
C3_BinaryRoundTripExact ==
    ParsedWritten /\ last.prev.fmt \in {"binary", "binary_compressed"} =>
        /\ last.ok
        /\ \A i \in 1..Len(last.arg.header.fields) : SameValues(last.arg, i, last.res)

\* C5 (as stated): for every parseable file, every label sequence and every
\* target encoding, the file re-parsed after updateLabels has the point
\* count it had before, and every field other than label has the values it
\* had before.
C5_UpdateLabelsPreservesOthers ==
    last.op = "parse" /\ last.prev.op = "updateLabels" /\ last.prev.ok =>
        /\ last.ok
        /\ numPoints(last.res) = numPoints(last.seen)
        /\ \A i \in 1..Len(last.seen.header.fields) :
             ToLower(last.seen.header.fields[i].name) # "label" =>
                SameValues(last.seen, i, last.res)

\* C6 (as stated): parse of a file whose header has no DATA line fails.
C6_NoDataLineFails ==
    last.op = "parse" /\ last.before.exists /\ ~last.before.hasData => ~last.ok

\* C7 (as stated): parse of a file whose DATA line names no encoding, or one
\* other than ascii, binary and binary_compressed, fails and decodes nothing.
C7_UnknownEncodingFails ==
    /\ last.op = "parse" /\ last.before.hasData
    /\ (last.before.dataArgs = << >> \/ last.before.dataArgs[1] \notin Formats)
    => ~last.ok /\ last.res = NoCloud

\* The uncompressedSize a binary_compressed payload declares.
DeclaredLen(file) == LEValue(SubSeq(file.body.bytes, 5, 8))

\* parse met a binary_compressed payload that holds both sizes.
ParsedCompressed ==
    /\ last.op = "parse"
    /\ parseHeader(last.before).header.dataType = "binary_compressed"
    /\ Len(last.before.body.bytes) >= 8

\* C10: a binary_compressed payload is decoded only if lzfDecompress
\* returned the declared uncompressed length; otherwise parse fails and
\* returns no cloud.
C10_LengthMustMatch ==
    ParsedCompressed =>
        /\ last.ok => last.actualSize = DeclaredLen(last.before)
        /\ ~last.ok => last.res = NoCloud

\* lzfDecompress produced fewer bytes than declared, and parse failed.
C10_Witness ==
    /\ ParsedCompressed
    /\ last.actualSize > 0
    /\ last.actualSize < DeclaredLen(last.before)
    /\ ~last.ok

\* ------------------------------------------------------------------------
\* Colour transcoder: inputs and calls
\* ------------------------------------------------------------------------

MaxColourPoints == 2

\* Bytes of a packed colour: both ends of 0..255.
ColourBytes == {0, 255}

\* Every packed value over ColourBytes, the top byte included, and two
\* values whose channels all differ: 0x00FF8000 and 0xFF102030.
PackedValues ==
    {<<b, g, r, a>> : b \in ColourBytes, g \in ColourBytes,
                      r \in ColourBytes, a \in ColourBytes}
    \cup {<<0, 128, 255, 0>>, <<48, 32, 16, 255>>}

\* Clouds with one packed colour field, alone or next to a coordinate.
ColourFieldLists ==
    { <<Field("rgb", 4, "F", 1)>>,
      <<Field("RGB", 4, "F", 1)>>,
      <<Field("x", 4, "F", 1), Field("rgb", 4, "F", 1)>>,
      <<Field("rgb", 4, "F", 1), Field("x", 4, "F", 1)>> }

\* The cloud with field list fs whose colour column is v.
ColourCloud(fs, v) ==
    PCDData([DefaultHeader EXCEPT !.fields = fs],
            [i \in 1..Len(fs) |->
               Column("f32", IF ToLower(fs[i].name) = "rgb" THEN v
                             ELSE [k \in 1..Len(v) |-> <<0, 0, 128, 63>>])])

InitColour == call = Idle /\ disk = NoFile /\ last = NoOp /\ colour = NoColour /\ mem = NoMem

\* unpackRGBForAscii(cloud)
Unpack ==
    /\ colour.fn = "idle"
    /\ \E fs \in ColourFieldLists, n \in 0..MaxColourPoints :
         \E v \in [1..n -> PackedValues] :
            colour' = [fn |-> "unpack", in |-> ColourCloud(fs, v),
                       out |-> unpackRGBForAscii(ColourCloud(fs, v))]
    /\ UNCHANGED <<call, disk, last, mem>>

\* packRGBForBinary of what Unpack returned.
Repack ==
    /\ colour.fn = "unpack"
    /\ colour' = [colour EXCEPT !.fn = "repack", !.out = packRGBForBinary(colour.out, 0)]
    /\ UNCHANGED <<call, disk, last, mem>>

NextColour == Unpack \/ Repack

SpecColour == InitColour /\ [][NextColour]_vars

\* ------------------------------------------------------------------------
\* Claims about the colour transcoder
\* ------------------------------------------------------------------------

\* The packed colour column of a cloud.
RgbColumn(cloud) == cloud.fieldData[rgbIndex(cloud.header.fields) + 1].v

\* C4 (as stated): unpacking a packed value p of a float field rgb and
\* packing it again yields a field rgb whose 32 bits equal p, whatever p's
\* top byte.
C4_RepackExact ==
    colour.fn = "repack" =>
        /\ rgbIndex(colour.out.header.fields) = rgbIndex(colour.in.header.fields)
        /\ RgbColumn(colour.out) = RgbColumn(colour.in)

\* C4 (amended): unpacking and packing again yields a field rgb at the same
\* position whose value is p with the top byte cleared; so the 32 bits equal
\* p exactly when p's top byte is zero.
C4_RepackLow24 ==
    colour.fn = "repack" =>
        /\ rgbIndex(colour.out.header.fields) = rgbIndex(colour.in.header.fields)
        /\ Len(RgbColumn(colour.out)) = Len(RgbColumn(colour.in))
        /\ \A i \in 1..Len(RgbColumn(colour.in)) :
             LET p == RgbColumn(colour.in)[i]
                 q == RgbColumn(colour.out)[i]
             IN /\ q = <<p[1], p[2], p[3], 0>>
                /\ p[4] = 0 => q = p

\* A value with three different channels and a zero top byte, next to one
\* with a non-zero top byte, has been unpacked and packed again.
C4_Witness ==
    /\ colour.fn = "repack"
    /\ RgbColumn(colour.in) = <<<<0, 128, 255, 0>>, <<48, 32, 16, 255>>>>


\* ------------------------------------------------------------------------
\* Claims about the decoded cloud's shape
\* ------------------------------------------------------------------------

\* C11 (as stated): after every successful parse, in each of the three
\* encodings, the cloud has one column per field of the header and every
\* column holds as many values as the header's POINTS line says.
C11_ColumnsMatchPoints ==
    last.op = "parse" /\ last.ok =>
        /\ Len(last.res.fieldData) = Len(last.res.header.fields)
        /\ \A i \in 1..Len(last.res.fieldData) :
             Len(last.res.fieldData[i].v) = last.res.header.points


\* ------------------------------------------------------------------------
\* Views of a cloud in memory: inputs and calls
\* ------------------------------------------------------------------------

MaxViewFields == 3

\* The fields a colour view looks at, with the types it accepts and others,
\* and a coordinate.
ColourFieldPool ==
    { Field("r", 1, "U", 1), Field("g", 1, "U", 1), Field("b", 1, "U", 1),
      Field("rgb", 4, "F", 1), Field("rgb", 1, "U", 1), Field("RGB", 4, "U", 1),
      Field("rgb", 8, "F", 1), Field("rgba", 4, "U", 1), Field("rgba", 4, "F", 1),
      Field("rgba", 4, "I", 1), Field("x", 4, "F", 1) }

\* The cloud without points whose header lists fs.
EmptyCloud(fs) ==
    PCDData([DefaultHeader EXCEPT !.fields = fs],
            [i \in 1..Len(fs) |-> createStorage(fs[i])])

InitView == call = Idle /\ disk = NoFile /\ last = NoOp /\ colour = NoColour /\ mem = NoMem

\* cloud.hasRGB()
HasRGB ==
    /\ mem.fn = "idle"
    /\ \E n \in 0..MaxViewFields :
         \E fs \in [1..n -> ColourFieldPool] :
            mem' = [NoMem EXCEPT !.fn = "hasRGB", !.cloud = EmptyCloud(fs),
                                 !.after = EmptyCloud(fs),
                                 !.ret = hasRGB(EmptyCloud(fs))]
    /\ UNCHANGED <<call, disk, last, colour>>

MaxViewPoints == 2

\* The (type, size) pairs of separate colour channels.
ChannelTypes == {<<"U", 1>>, <<"I", 1>>, <<"U", 2>>, <<"I", 4>>, <<"F", 4>>, <<"F", 8>>}

\* The values of a channel column, two per representation: 0 and 255;
\* 1 and -1; 255 and 1000; 1 and 256; 0.5 and 300.0; 1.0 and 2.5.
ChannelValues(rep) ==
    CASE rep = "u8" -> {<<0>>, <<255>>}
      [] rep = "i8" -> {<<1>>, <<255>>}
      [] rep = "u16" -> {<<255, 0>>, <<232, 3>>}
      [] rep = "i32" -> {<<1, 0, 0, 0>>, <<0, 1, 0, 0>>}
      [] rep = "f32" -> {<<0, 0, 0, 63>>, <<0, 0, 150, 67>>}
      [] OTHER -> {<<0, 0, 0, 0, 0, 0, 240, 63>>, <<0, 0, 0, 0, 0, 0, 4, 64>>}

\* The cloud with the channel fields r, g, b of one type and the columns.
ChannelCloud(t, r, g, b) ==
    PCDData([DefaultHeader EXCEPT !.fields = <<Field("r", t[2], t[1], 1),
                                               Field("g", t[2], t[1], 1),
                                               Field("b", t[2], t[1], 1)>>],
            <<Column(StorageRep(t[1], t[2]), r), Column(StorageRep(t[1], t[2]), g),
              Column(StorageRep(t[1], t[2]), b)>>)

\* The packed colour fields: the two types getRGB reads, under both names,
\* and a type it does not read.
PackedFields ==
    { Field("rgb", 4, "F", 1), Field("rgb", 4, "U", 1), Field("rgba", 4, "U", 1),
      Field("RGBA", 4, "F", 1), Field("rgb", 4, "I", 1) }

\* The cloud with one packed colour column v, after a coordinate column of
\* lead values when lead >= 0.
PackedCloud(f, v, lead) ==
    LET col == Column(StorageRep(f.type, f.size), v)
    IN IF lead < 0 THEN PCDData([DefaultHeader EXCEPT !.fields = <<f>>], <<col>>)
       ELSE PCDData([DefaultHeader EXCEPT !.fields = <<Field("x", 4, "F", 1), f>>],
                    <<Column("f32", [i \in 1..lead |-> F32One]), col>>)

\* cloud.getRGB() on separate channels; the column of g may be one short,
\* as a decoder can leave it.
GetChannelRGB ==
    /\ mem.fn = "idle"
    /\ \E t \in ChannelTypes, n \in 0..MaxViewPoints, short \in {0, 1} :
         /\ short <= n
         /\ \E r \in [1..n -> ChannelValues(StorageRep(t[1], t[2]))],
               g \in [1..(n - short) -> ChannelValues(StorageRep(t[1], t[2]))],
               b \in [1..n -> ChannelValues(StorageRep(t[1], t[2]))],
               junk \in (IF short = 1 THEN JunkSeeds ELSE {0}) :
              mem' = [NoMem EXCEPT !.fn = "getRGB", !.cloud = ChannelCloud(t, r, g, b),
                                   !.after = ChannelCloud(t, r, g, b),
                                   !.ret = getRGB(ChannelCloud(t, r, g, b), junk)]
    /\ UNCHANGED <<call, disk, last, colour>>

\* cloud.getRGB() on a packed field.
GetPackedRGB ==
    /\ mem.fn = "idle"
    /\ \E f \in PackedFields, n \in 0..MaxViewPoints, extra \in {-1, 0, 1} :
         \E v \in [1..n -> {<<0, 128, 255, 0>>, <<48, 32, 16, 255>>}] :
            \E c \in {PackedCloud(f, v, IF extra < 0 THEN -1 ELSE n + extra)} :
               mem' = [NoMem EXCEPT !.fn = "getRGB", !.cloud = c, !.after = c,
                                    !.ret = getRGB(c, 0)]
    /\ UNCHANGED <<call, disk, last, colour>>

MaxSets == 2

\* Field lists for the label calls: no label field, one declared as
\* setLabels makes it, in either position, ones declared otherwise, and two.
LabelFieldLists ==
    { <<Field("x", 4, "F", 1)>>,
      <<Field("x", 4, "F", 1), Field("label", 4, "U", 1)>>,
      <<Field("label", 4, "U", 1), Field("x", 4, "F", 1)>>,
      <<Field("x", 4, "F", 1), Field("label", 1, "U", 1)>>,
      <<Field("x", 4, "F", 1), Field("Label", 4, "F", 1)>>,
      <<Field("label", 2, "I", 1), Field("x", 4, "F", 1), Field("label", 4, "U", 1)>> }

\* Value i of a column of the representation: 1.0 for a coordinate;
\* for a label 256 + i, 200, -2, 7.0000005.
ViewValue(f, i) ==
    LET rep == StorageRep(f.type, f.size)
    IN CASE ToLower(f.name) # "label" -> F32One
         [] rep = "u32" -> <<i, 1, 0, 0>>
         [] rep = "u8" -> <<200>>
         [] rep = "i16" -> <<254, 255>>
         [] OTHER -> <<1, 0, 224, 64>>

\* The cloud with n values in the columns of its label fields and m in the
\* others, as a decoder can leave them.
LabelCloud(fs, n, m) ==
    PCDData([DefaultHeader EXCEPT !.fields = fs],
            [k \in 1..Len(fs) |->
               Column(StorageRep(fs[k].type, fs[k].size),
                      [i \in 1..(IF ToLower(fs[k].name) = "label" THEN n ELSE m) |->
                         ViewValue(fs[k], i)])])

\* The clouds the label calls start from.
LabelClouds ==
    {LabelCloud(fs, n, m) : fs \in LabelFieldLists, n \in 0..MaxViewPoints,
                            m \in 0..MaxViewPoints}

\* cloud.setLabels(L), on a fresh cloud or on the one the last call left.
SetLabels ==
    /\ mem.fn \in {"idle", "setLabels"}
    /\ mem.sets < MaxSets
    /\ \E L \in LabelSeqs, c \in (IF mem.fn = "idle" THEN LabelClouds ELSE {mem.after}) :
         mem' = [mem EXCEPT !.fn = "setLabels", !.cloud = c, !.labels = L,
                            !.after = setLabels(c, L), !.sets = @ + 1]
    /\ UNCHANGED <<call, disk, last, colour>>

\* cloud.setLabels(L) on the cloud parse returned, or on the one the last
\* setLabels left.
SetLabelsParsed ==
    /\ last.op = "parse" /\ last.ok
    /\ mem.fn \in {"idle", "setLabels"}
    /\ mem.sets < MaxSets
    /\ \E L \in LabelSeqs, c \in (IF mem.fn = "idle" THEN {last.res} ELSE {mem.after}) :
         mem' = [mem EXCEPT !.fn = "setLabels", !.cloud = c, !.labels = L,
                            !.after = setLabels(c, L), !.sets = @ + 1]
    /\ UNCHANGED <<call, disk, last, colour>>

\* The behaviours made of parse and setLabels: a file is written or
\* supplied and parsed, and labels are set on the cloud, once or more.
NextLabels == Write \/ Foreign \/ Parse \/ SetLabelsParsed

SpecLabels == Init /\ [][NextLabels]_vars

\* cloud.getLabels(), on a fresh cloud or on the one setLabels left.
GetLabels ==
    /\ mem.fn \in {"idle", "setLabels"}
    /\ \E junk \in JunkSeeds,
          c \in (IF mem.fn = "idle" THEN LabelClouds ELSE {mem.after}) :
         mem' = [mem EXCEPT !.fn = "getLabels", !.ret = getLabels(c, junk),
                            !.cloud = IF mem.fn = "idle" THEN c ELSE @,
                            !.after = c]
    /\ UNCHANGED <<call, disk, last, colour>>

\* Field names in both cases, and names to look for.
NamePool == {"x", "X", "y", "label", "Label", "intensity"}
QueryNames == {"x", "X", "Label", "Intensity", "nonexistent"}

\* header.findField(name)
FindField ==
    /\ mem.fn = "idle"
    /\ \E n \in 0..MaxViewFields, name \in QueryNames :
         \E names \in [1..n -> NamePool] :
            \E c \in {EmptyCloud([i \in 1..n |-> Field(names[i], 4, "F", 1)])} :
               mem' = [NoMem EXCEPT !.fn = "findField", !.cloud = c, !.after = c,
                                    !.name = name,
                                    !.ret = findField(c.header.fields, name)]
    /\ UNCHANGED <<call, disk, last, colour>>

\* Field lists for getPositions: the three coordinates as floats, in
\* another order and of other types, with a field missing, and x twice.
PositionFieldLists ==
    { <<Field("x", 4, "F", 1), Field("y", 4, "F", 1), Field("z", 4, "F", 1)>>,
      <<Field("z", 2, "I", 1), Field("Y", 8, "F", 1), Field("x", 4, "U", 1)>>,
      <<Field("x", 4, "F", 1), Field("y", 4, "F", 1)>>,
      <<Field("y", 4, "F", 1), Field("z", 4, "F", 1), Field("label", 4, "U", 1)>>,
      <<Field("X", 4, "I", 1), Field("y", 1, "U", 1), Field("z", 4, "F", 1),
        Field("x", 4, "F", 1)>> }

\* Value i of a coordinate column: different for every field and index;
\* for a 32-bit field 16777217 + 256 i, which no float holds; for a
\* double 0.1 + i, likewise.
CoordValue(f, i) ==
    LET rep == StorageRep(f.type, f.size)
    IN CASE rep = "f32" -> <<i, IF ToLower(f.name) = "x" THEN 1 ELSE 2, 128, 63>>
         [] rep = "f64" -> <<154, 153, 153, 153, 153, 153, 240 + i, 63>>
         [] rep = "i16" -> <<255 - i, 255>>
         [] rep = "u8" -> <<i>>
         [] OTHER -> <<1, i, 0, 1>>

\* The cloud whose column k holds lens[k] values.
CoordCloud(fs, lens) ==
    PCDData([DefaultHeader EXCEPT !.fields = fs],
            [k \in 1..Len(fs) |->
               Column(StorageRep(fs[k].type, fs[k].size),
                      [i \in 1..lens[k] |-> CoordValue(fs[k], i)])])

\* cloud.getPositions()
GetPositions ==
    /\ mem.fn = "idle"
    /\ \E fs \in PositionFieldLists :
         \E lens \in [1..Len(fs) -> 0..MaxViewPoints] :
            \E c \in {CoordCloud(fs, lens)} :
               mem' = [NoMem EXCEPT !.fn = "getPositions", !.cloud = c, !.after = c,
                                    !.ret = getPositions(c)]
    /\ UNCHANGED <<call, disk, last, colour>>

MaxFieldSize == 9

\* TYPE letters: the three of the format and two others.
TypeLetters == {"I", "U", "F", "X", "i"}

\* field.createStorage()
CreateStorage ==
    /\ mem.fn = "idle"
    /\ \E type \in TypeLetters, size \in 0..MaxFieldSize :
         mem' = [NoMem EXCEPT !.fn = "createStorage",
                              !.cloud = PCDData([DefaultHeader EXCEPT !.fields =
                                                   <<Field("f", size, type, 1)>>], << >>),
                              !.ret = createStorage(Field("f", size, type, 1))]
    /\ UNCHANGED <<call, disk, last, colour>>

NextView ==
    \/ HasRGB \/ GetChannelRGB \/ GetPackedRGB
    \/ SetLabels \/ GetLabels \/ FindField \/ GetPositions \/ CreateStorage

SpecView == InitView /\ [][NextView]_vars

\* ------------------------------------------------------------------------
\* Claims about the views
\* ------------------------------------------------------------------------

\* Some field of fs has the name (compared without case).
HasNamed(fs, name) == \E i \in 1..Len(fs) : ToLower(fs[i].name) = name

\* The first field of fs with the name.
FirstNamed(fs, name) ==
    fs[CHOOSE i \in 1..Len(fs) :
         /\ ToLower(fs[i].name) = name
         /\ \A j \in 1..(i - 1) : ToLower(fs[j].name) # name]

HasChannels(fs) == HasNamed(fs, "r") /\ HasNamed(fs, "g") /\ HasNamed(fs, "b")

\* C12 (as stated): hasRGB() is true exactly when the cloud has fields r, g
\* and b, or a field named rgb or a field named rgba that is a 32-bit float
\* or a 32-bit unsigned integer: so it is true when rgb has another type and
\* rgba is a 32-bit float or unsigned.
C12_HasRGBEitherPacked ==
    mem.fn = "hasRGB" =>
        LET fs == mem.cloud.header.fields
        IN mem.ret <=>
             \/ HasChannels(fs)
             \/ \E i \in 1..Len(fs) :
                   /\ ToLower(fs[i].name) \in {"rgb", "rgba"}
                   /\ IsPacked32(fs[i])

\* C12 (amended): hasRGB() is true exactly when the cloud has fields r, g
\* and b, or its packed colour field (the first field named rgb, or the first
\* field named rgba when no field is named rgb) is a 32-bit float or a 32-bit
\* unsigned integer: so it is false when rgb has another type, whatever rgba.
C12_HasRGBFirstPacked ==
    mem.fn = "hasRGB" =>
        LET fs == mem.cloud.header.fields
        IN mem.ret <=>
             \/ HasChannels(fs)
             \/ HasNamed(fs, "rgb") /\ IsPacked32(FirstNamed(fs, "rgb"))
             \/ ~HasNamed(fs, "rgb") /\ HasNamed(fs, "rgba")
                  /\ IsPacked32(FirstNamed(fs, "rgba"))

\* hasRGB answered for a cloud without r, g, b whose rgb field is one byte
\* wide and whose rgba field is a 32-bit float: the answer was no.
C12_Witness ==
    /\ mem.fn = "hasRGB"
    /\ ~HasChannels(mem.cloud.header.fields)
    /\ HasNamed(mem.cloud.header.fields, "rgb")
    /\ ~IsPacked32(FirstNamed(mem.cloud.header.fields, "rgb"))
    /\ HasNamed(mem.cloud.header.fields, "rgba")
    /\ IsPacked32(FirstNamed(mem.cloud.header.fields, "rgba"))
    /\ mem.ret = FALSE


\* The float is a number between 0 and the float bound.
F32Within(num, bound) ==
    /\ ~F32IsNaN(num)
    /\ F32Key(num) >= 0 \/ num = <<0, 0, 0, 128>>
    /\ F32Key(num) <= F32Key(bound)

\* A value of getRGB lies in [0,1].  x * (1.0f / 255.0f) and x / 255.0f are
\* at most 1 exactly when x is at most 255 (255 gives 1.0f, the next float
\* gives more).
InUnit(c) ==
    IF c.op \in {"mul255th", "div255"} THEN F32Within(c.num, <<0, 0, 127, 67>>)
    ELSE F32Within(c.num, F32One)

\* C13 (as stated): every value getRGB() returns lies in [0,1], for separate
\* r, g, b fields of any numeric type as for packed rgb/rgba fields.
C13_RGBInUnit ==
    mem.fn = "getRGB" => \A k \in 1..Len(mem.ret) : InUnit(mem.ret[k])


\* C14: after setLabels(L), getLabels() returns exactly L; when no field
\* named label existed, a field label of size 4, type U, count 1 and its
\* column are appended last, and when one existed no field is added and
\* every field stays where it is.
C14_SetThenGetLabels ==
    LET before == mem.cloud
        after == mem.after
        nb == Len(before.header.fields)
    IN /\ mem.fn = "getLabels" /\ mem.sets > 0 => mem.ret = mem.labels
       /\ mem.sets > 0 =>
            IF HasNamed(before.header.fields, "label")
            THEN /\ after.header.fields = before.header.fields
                 /\ Len(after.fieldData) = Len(before.fieldData)
            ELSE /\ after.header.fields =
                      before.header.fields \o <<Field("label", 4, "U", 1)>>
                 /\ Len(after.fieldData) = Len(before.fieldData) + 1
                 /\ SubSeq(after.fieldData, 1, nb) = before.fieldData
                 /\ after.fieldData[nb + 1].v = mem.labels

\* getLabels answered after setLabels replaced, by labels of another count,
\* the column of a label field that was there and was not declared U 4.
C14_Witness ==
    /\ mem.fn = "getLabels" /\ mem.sets = 1
    /\ HasNamed(mem.cloud.header.fields, "label")
    /\ ~IsPacked32(FirstNamed(mem.cloud.header.fields, "label"))
    /\ Len(mem.labels) = 3
    /\ mem.ret = mem.labels


\* Two names are equal when compared without case.
SameName(a, b) == ToLower(a) = ToLower(b)

\* C15: findField(name) returns the smallest index whose field name equals
\* name when both are compared without case, and -1 when no field matches.
C15_FindFieldFirstMatch ==
    mem.fn = "findField" =>
        LET fs == mem.cloud.header.fields
            hits == {i \in 0..(Len(fs) - 1) : SameName(fs[i + 1].name, mem.name)}
        IN IF hits = {} THEN mem.ret = -1
           ELSE mem.ret \in hits /\ \A i \in hits : mem.ret <= i

\* findField looked for a name in upper case and found it in lower case at
\* index 1, before a second match.
C15_Witness ==
    /\ mem.fn = "findField"
    /\ mem.name = "X"
    /\ mem.ret = 1
    /\ Len(mem.cloud.header.fields) = 3
    /\ mem.cloud.header.fields[2].name = "x"
    /\ mem.cloud.header.fields[3].name = "X"


\* The column of the first field with the name.
ColumnNamed(cloud, name) ==
    cloud.fieldData[CHOOSE i \in 1..Len(cloud.header.fields) :
                      /\ ToLower(cloud.header.fields[i].name) = name
                      /\ \A j \in 1..(i - 1) :
                            ToLower(cloud.header.fields[j].name) # name]

\* C16: getPositions() returns the empty sequence when one of x, y, z is
\* missing; otherwise 3 n values, n the smallest length of the x, y and z
\* columns, with positions[3i], [3i+1], [3i+2] the values x[i], y[i], z[i]
\* (as the floats getFieldAsFloat makes of them).
C16_PositionsInterleaved ==
    mem.fn = "getPositions" =>
        LET fs == mem.cloud.header.fields
        IN IF ~(HasNamed(fs, "x") /\ HasNamed(fs, "y") /\ HasNamed(fs, "z"))
           THEN mem.ret = << >>
           ELSE LET x == ColumnNamed(mem.cloud, "x")
                    y == ColumnNamed(mem.cloud, "y")
                    z == ColumnNamed(mem.cloud, "z")
                IN /\ \E n \in {Len(x.v), Len(y.v), Len(z.v)} :
                        /\ n <= Len(x.v) /\ n <= Len(y.v) /\ n <= Len(z.v)
                        /\ Len(mem.ret) = 3 * n
                   /\ \A i \in 0..((Len(mem.ret) \div 3) - 1) :
                        /\ mem.ret[(3 * i) + 1] = ToFloat(x.rep, x.v[i + 1])
                        /\ mem.ret[(3 * i) + 2] = ToFloat(y.rep, y.v[i + 1])
                        /\ mem.ret[(3 * i) + 3] = ToFloat(z.rep, z.v[i + 1])
                        /\ x.rep = "f32" => mem.ret[(3 * i) + 1] = x.v[i + 1]

\* getPositions answered for a cloud whose x column is longer than its z
\* column, with one point at least.
C16_Witness ==
    /\ mem.fn = "getPositions"
    /\ HasNamed(mem.cloud.header.fields, "x")
    /\ HasNamed(mem.cloud.header.fields, "y")
    /\ HasNamed(mem.cloud.header.fields, "z")
    /\ Len(ColumnNamed(mem.cloud, "x").v) > Len(ColumnNamed(mem.cloud, "z").v)
    /\ Len(mem.ret) = 3 * Len(ColumnNamed(mem.cloud, "z").v)
    /\ Len(mem.ret) > 0


\* C17: createStorage selects the representation from (type, size): signed
\* 8/16/32-bit for I with 1, 2, 4; unsigned 8/16/32-bit for U with 1, 2, 4;
\* float for F with 4; double for F with 8; for every other combination an
\* empty 32-bit float column.  The column is empty in every case.
C17_StorageByTypeAndSize ==
    mem.fn = "createStorage" =>
        LET f == mem.cloud.header.fields[1]
            rep == mem.ret.rep
        IN /\ mem.ret.v = << >>
           /\ rep \in Reps
           /\ IF f.type = "I" /\ f.size \in {1, 2, 4}
              THEN RepIsSigned(rep) /\ RepSize(rep) = f.size
              ELSE IF f.type = "U" /\ f.size \in {1, 2, 4}
              THEN ~RepIsSigned(rep) /\ ~RepIsFloat(rep) /\ RepSize(rep) = f.size
              ELSE IF f.type = "F" /\ f.size \in {4, 8}
              THEN RepIsFloat(rep) /\ RepSize(rep) = f.size
              ELSE rep = "f32"

\* createStorage answered for a signed field of 8 bytes: a float column.
C17_Witness ==
    /\ mem.fn = "createStorage"
    /\ mem.cloud.header.fields[1].type = "I"
    /\ mem.cloud.header.fields[1].size = 8
    /\ mem.ret = Column("f32", << >>)


\* ------------------------------------------------------------------------
\* Claims about the encoding updateLabels writes
\* ------------------------------------------------------------------------

\* The encoding the DATA line of a file names (ascii when it names none).
EncodingOf(file) == parseHeader(file).header.dataType

\* updateLabels parsed the file and went on to write it.
UpdateWrote == last.op = "updateLabels" /\ (last.ok \/ disk # last.before)

\* C18: updateLabels without an explicit encoding (empty format string)
\* rewrites the file in the encoding parsed from the file's DATA line; with
\* an explicit encoding it rewrites the file in that encoding.
C18_UpdateKeepsOrSetsEncoding ==
    UpdateWrote =>
        /\ EncodingOf(disk) =
             IF last.fmt = "" THEN EncodingOf(last.before) ELSE last.fmt
        /\ last.ok =>
             disk.body.kind = IF EncodingOf(disk) = "ascii" THEN "text" ELSE "bytes"

\* updateLabels without an encoding rewrote a binary_compressed file as
\* binary_compressed.
C18_Witness ==
    /\ last.op = "updateLabels" /\ last.ok
    /\ last.fmt = ""
    /\ EncodingOf(last.before) = "binary_compressed"
    /\ EncodingOf(disk) = "binary_compressed"
    /\ disk # last.before


\* ------------------------------------------------------------------------
\* Claims about the representation of columns
\* ------------------------------------------------------------------------

\* Every column of the cloud is in the representation createStorage selects
\* for its field.
RepsAsDeclared(cloud) ==
    /\ Len(cloud.fieldData) = Len(cloud.header.fields)
    /\ \A i \in 1..Len(cloud.fieldData) :
         cloud.fieldData[i].rep = createStorage(cloud.header.fields[i]).rep

\* parse returns every column in the representation of its field.
ParsedRepsAsDeclared == last.op = "parse" /\ last.ok => RepsAsDeclared(last.res)

\* C19 (as stated): after any sequence of parse and setLabels, every column
\* is in the representation createStorage selects for its field; replacing
\* the data of a label field not declared as 4-byte unsigned leaves the
\* column in the representation of its declared (type, size).
C19_RepresentationFixed ==
    /\ last.op = "parse" /\ last.ok => RepsAsDeclared(last.res)
    /\ mem.fn = "setLabels" => RepsAsDeclared(mem.after)


\* ------------------------------------------------------------------------
\* Claims about ascii decoding
\* ------------------------------------------------------------------------

\* parse decoded an ascii payload; AsciiRows are its rows.
AsciiParsed ==
    last.op = "parse" /\ last.ok /\ EncodingOf(last.before) = "ascii"

AsciiRows == parseHeader(last.before).rest.rows

\* The rows that supply a token for field i, in order.
RowsWithToken(i) == SelectSeq(AsciiRows, LAMBDA row : Len(row) >= i)

\* Column i holds one value for every row that supplies its token, the
\* column's zero where the token is not a number.
OneValuePerToken(i) ==
    LET col == last.res.fieldData[i]
        rows == RowsWithToken(i)
    IN /\ Len(col.v) = Len(rows)
       /\ \A k \in 1..Len(rows) :
            rows[k][i].k = "bad" => col.v[k] = Zeros(RepSize(col.rep))

\* C20 (as stated): in ascii decoding, for every row and every field i for
\* which the row supplies a token, exactly one value is appended to column
\* i (the parsed value, or the column's zero when the token is not numeric);
\* so after rows that each have at least as many tokens as there are
\* fields, all columns have equal length.
C20_OneValuePerSuppliedToken ==
    AsciiParsed =>
        /\ \A i \in 1..Len(last.res.fieldData) : OneValuePerToken(i)
        /\ (\A k \in 1..Len(AsciiRows) :
               Len(AsciiRows[k]) >= Len(last.res.header.fields))
             => \A i, j \in 1..Len(last.res.fieldData) :
                   Len(last.res.fieldData[i].v) = Len(last.res.fieldData[j].v)

\* The same for the fields whose (type, size) the decoder has a case for.
OneValuePerDecodableToken ==
    AsciiParsed =>
        \A i \in 1..Len(last.res.fieldData) :
           Decodable(last.res.header.fields[i]) => OneValuePerToken(i)


\* ------------------------------------------------------------------------
\* Claims about binary decoding of short payloads
\* ------------------------------------------------------------------------

\* parse met a binary payload with fewer bytes than POINTS points take.
ShortBinaryParsed ==
    /\ last.op = "parse"
    /\ EncodingOf(last.before) = "binary"
    /\ Len(last.before.body.bytes) <
         parseHeader(last.before).header.points
           * getPointSize(parseHeader(last.before).header.fields)

\* The whole points the payload of the parsed file holds.
WholePoints ==
    Len(last.before.body.bytes)
      \div getPointSize(parseHeader(last.before).header.fields)

\* C21 (as stated): binary decoding of a payload shorter than POINTS points
\* returns without error, and every column then holds exactly
\* floor(available bytes / point size) values: a point goes to all columns
\* or to none, and a trailing partial point is dropped.
C21_ShortBinaryTruncates ==
    ShortBinaryParsed =>
        /\ last.ok
        /\ \A i \in 1..Len(last.res.fieldData) :
             Len(last.res.fieldData[i].v) = WholePoints

\* The same for the columns of the fields the decoder has a case for.
ShortBinaryTruncatesDecodable ==
    ShortBinaryParsed =>
        /\ last.ok
        /\ \A i \in 1..Len(last.res.fieldData) :
             Decodable(last.res.header.fields[i]) =>
                Len(last.res.fieldData[i].v) = WholePoints


\* ------------------------------------------------------------------------
\* The header write emits: inputs, calls and claims
\* ------------------------------------------------------------------------

\* What WIDTH, HEIGHT and POINTS of a cloud's header can hold when it is
\* written: the defaults, an organized cloud, and a count that is not the
\* cloud's.
HeaderCounts ==
    { [width |-> 0, height |-> 1, points |-> 0],
      [width |-> 2, height |-> 3, points |-> 6],
      [width |-> 7, height |-> 1, points |-> 7] }

\* write(path, cloud, format) for a cloud whose header holds any counts and
\* whose columns need not have one length.
WriteAnyHeader ==
    /\ last.op = "none"
    /\ \E C \in ValidClouds \cup LabelClouds, h \in HeaderCounts, E \in Formats :
         \E c \in {[C EXCEPT !.header.width = h.width, !.header.height = h.height,
                               !.header.points = h.points]} :
            \E r \in {write(c, E, 0)} :
               /\ disk' = r.file
               /\ last' = [NoOp EXCEPT !.op = "write", !.ok = r.ok, !.fmt = E, !.arg = c]
    /\ UNCHANGED <<call, colour, mem>>

\* Field lists with colour channels: next to other fields, out of order,
\* in capitals, with b missing, with an r that is not 8-bit unsigned, and
\* next to a packed field.
RGBFieldLists ==
    { <<Field("x", 4, "F", 1), Field("r", 1, "U", 1), Field("g", 1, "U", 1),
        Field("b", 1, "U", 1)>>,
      <<Field("g", 1, "U", 1), Field("x", 4, "F", 1), Field("b", 1, "U", 1),
        Field("r", 1, "U", 1), Field("label", 4, "U", 1)>>,
      <<Field("R", 1, "U", 1), Field("G", 1, "U", 1), Field("B", 1, "U", 1)>>,
      <<Field("r", 1, "U", 1), Field("g", 1, "U", 1), Field("x", 4, "F", 1)>>,
      <<Field("r", 4, "F", 1), Field("g", 1, "U", 1), Field("b", 1, "U", 1)>>,
      <<Field("b", 1, "U", 1), Field("g", 1, "U", 1), Field("r", 1, "U", 1),
        Field("rgb", 4, "F", 1)>> }

\* The colours of a point, as <<r, g, b>>: 0x102030 and 0xFF0080.
ChannelTriples == { <<16, 32, 48>>, <<255, 0, 128>> }

\* The cloud with field list fs whose point k has the colour t[k]; a field
\* that is not an 8-bit channel holds a value that tells the points apart.
RGBCloud(fs, t) ==
    LET value(f, k) ==
            LET rep == StorageRep(f.type, f.size)
            IN IF rep = "u8" /\ ToLower(f.name) = "r" THEN <<t[k][1]>>
               ELSE IF rep = "u8" /\ ToLower(f.name) = "g" THEN <<t[k][2]>>
               ELSE IF rep = "u8" /\ ToLower(f.name) = "b" THEN <<t[k][3]>>
               ELSE IF rep = "f32" THEN <<k, 0, 128, 63>>
               ELSE <<k>> \o Zeros(RepSize(rep) - 1)
    IN PCDData([DefaultHeader EXCEPT !.fields = fs],
               [i \in 1..Len(fs) |->
                  Column(StorageRep(fs[i].type, fs[i].size),
                         [k \in 1..Len(t) |-> value(fs[i], k)])])

\* write(path, cloud, format) for a cloud with colour channels.
WriteColour ==
    /\ last.op = "none"
    /\ \E fs \in RGBFieldLists, n \in 0..MaxColourPoints, E \in Formats :
         \E t \in [1..n -> ChannelTriples] :
            \E r \in {write(RGBCloud(fs, t), E, 0)} :
               /\ disk' = r.file
               /\ last' = [NoOp EXCEPT !.op = "write", !.ok = r.ok, !.fmt = E,
                                        !.arg = RGBCloud(fs, t)]
    /\ UNCHANGED <<call, colour, mem>>

NextWrite == WriteAnyHeader \/ WriteColour

SpecWrite == Init /\ [][NextWrite]_vars

\* The cloud write encodes: the argument after colour transcoding.
Transcoded(cloud, format) ==
    IF format = "ascii" THEN unpackRGBForAscii(cloud) ELSE packRGBForBinary(cloud, 0)

\* The cloud has none of the fields the transcoders look at.
NoColourFields(cloud) ==
    \A i \in 1..Len(cloud.header.fields) :
       ToLower(cloud.header.fields[i].name) \notin {"r", "g", "b", "rgb"}

\* C22: the header write emits has HEIGHT 1 and WIDTH and POINTS both equal
\* to the row count of the cloud being written (the length of its first
\* column after colour transcoding), whatever width, height and points the
\* cloud's header holds.
C22_HeaderCountsRows ==
    last.op = "write" =>
        /\ disk.exists
        /\ disk.height = 1
        /\ disk.width = numPoints(Transcoded(last.arg, last.fmt))
        /\ disk.points = numPoints(Transcoded(last.arg, last.fmt))
        /\ NoColourFields(last.arg) /\ Len(last.arg.fieldData) > 0 =>
             disk.points = Len(last.arg.fieldData[1].v)

\* write emitted the header of a cloud with points whose own header says
\* HEIGHT 3 and another count, and whose columns differ in length.
C22_Witness ==
    /\ last.op = "write" /\ last.ok
    /\ last.arg.header.height = 3
    /\ disk.points > 0
    /\ disk.points # last.arg.header.points
    /\ \E i \in 1..Len(last.arg.fieldData) :
          Len(last.arg.fieldData[i].v) # disk.points


\* 0 when the cloud has no 8-bit unsigned field with this name, else the
\* position of the one it has.
ChannelAt(cloud, name) ==
    LET hits == {i \in 1..Len(cloud.header.fields) :
                   /\ ToLower(cloud.header.fields[i].name) = name
                   /\ cloud.header.fields[i].type = "U"
                   /\ cloud.header.fields[i].size = 1}
    IN IF hits = {} THEN 0 ELSE CHOOSE i \in hits : TRUE

\* The cloud has 8-bit unsigned fields r, g and b.
HasByteChannels(cloud) ==
    ChannelAt(cloud, "r") > 0 /\ ChannelAt(cloud, "g") > 0 /\ ChannelAt(cloud, "b") > 0

\* All columns of the cloud have one length, and every field has a column.
EqualColumns(cloud) ==
    /\ Len(cloud.fieldData) = Len(cloud.header.fields)
    /\ \A i, j \in 1..Len(cloud.fieldData) :
          Len(cloud.fieldData[i].v) = Len(cloud.fieldData[j].v)

\* What the claim says is written for the field at position i: nothing for
\* g and b, the field rgb and the values (r<<16)|(g<<8)|b for r, the field
\* and its column for any other; field and column themselves when a channel
\* is absent.
MergedAt(cloud, i) ==
    LET R == ChannelAt(cloud, "r")
        G == ChannelAt(cloud, "g")
        B == ChannelAt(cloud, "b")
    IN IF ~HasByteChannels(cloud)
       THEN <<[f |-> cloud.header.fields[i], v |-> cloud.fieldData[i].v]>>
       ELSE IF i = G \/ i = B THEN << >>
       ELSE IF i = R
       THEN <<[f |-> Field("rgb", 4, "F", 1),
               v |-> [k \in 1..Len(cloud.fieldData[R].v) |->
                        LEBytes(cloud.fieldData[R].v[k][1] * 65536
                                  + cloud.fieldData[G].v[k][1] * 256
                                  + cloud.fieldData[B].v[k][1], 4)]]>>
       ELSE <<[f |-> cloud.header.fields[i], v |-> cloud.fieldData[i].v]>>

Merged(cloud) == Concat([i \in 1..Len(cloud.header.fields) |-> MergedAt(cloud, i)])

\* The columns in m point by point, and field by field.
PointMajor(m, n) == Concat([k \in 1..n |-> Concat([i \in 1..Len(m) |-> m[i].v[k]])])
FieldMajor(m, n) == Concat([i \in 1..Len(m) |-> Concat([k \in 1..n |-> m[i].v[k]])])

\* The bytes the payload on disk stands for: the payload itself in binary,
\* what lzfDecompress makes of it in binary_compressed.
Inflated(file) ==
    lzfDecompress(SubSeq(file.body.bytes, 9, Len(file.body.bytes)),
                  LEValue(SubSeq(file.body.bytes, 5, 8)), 0).out

\* write was called with a binary encoding and a cloud whose columns have
\* one length, each channel name on at most one 8-bit unsigned field.
WroteBinaryCloud ==
    /\ last.op = "write"
    /\ last.fmt \in {"binary", "binary_compressed"}
    /\ EqualColumns(last.arg)
    /\ Len(last.arg.fieldData) > 0
    /\ \A i, j \in 1..Len(last.arg.header.fields) :
          /\ i # j
          /\ ToLower(last.arg.header.fields[i].name) \in {"r", "g", "b"}
          => ToLower(last.arg.header.fields[i].name)
               # ToLower(last.arg.header.fields[j].name)

WrittenAsMerged(m, n) ==
    /\ disk.names = [i \in 1..Len(m) |-> m[i].f.name]
    /\ disk.sizes = [i \in 1..Len(m) |-> m[i].f.size]
    /\ disk.types = [i \in 1..Len(m) |-> m[i].f.type]
    /\ disk.counts = [i \in 1..Len(m) |-> m[i].f.count]
    /\ last.fmt = "binary" => disk.body.bytes = PointMajor(m, n)
    /\ last.fmt = "binary_compressed" /\ last.ok => Inflated(disk) = FieldMajor(m, n)

\* C23: a cloud with 8-bit unsigned fields r, g and b is written as binary
\* or binary_compressed with one 4-byte float field rgb at the position of
\* r, g and b removed, the other fields in their order with their values,
\* and each rgb value (r<<16)|(g<<8)|b; when one of the three is absent the
\* fields and columns are written as they are.
C23_ChannelsWrittenPacked ==
    WroteBinaryCloud =>
        WrittenAsMerged(Merged(last.arg), Len(last.arg.fieldData[1].v))

\* A cloud with fields g, x, b, r, label and two points of different
\* colours was written as x, rgb, label.
C23_Witness ==
    /\ WroteBinaryCloud /\ last.ok
    /\ HasByteChannels(last.arg)
    /\ ChannelAt(last.arg, "g") < ChannelAt(last.arg, "r")
    /\ Len(last.arg.header.fields) = 5
    /\ disk.names = <<"x", "rgb", "label">>
    /\ Len(last.arg.fieldData[1].v) = 2
    /\ last.arg.fieldData[1].v[1] # last.arg.fieldData[1].v[2]

\* A cloud with r and g but no b was written with its fields as they are.
C23_WitnessAbsent ==
    /\ WroteBinaryCloud /\ last.ok
    /\ ~HasByteChannels(last.arg)
    /\ ChannelAt(last.arg, "r") > 0
    /\ Len(last.arg.fieldData[1].v) > 0


\* ------------------------------------------------------------------------
\* Claims about failed calls
\* ------------------------------------------------------------------------

\* C24: when write, updateLabels or convertFormat fails, the file at the
\* path is what it was before the call.
C24_FailureLeavesFile ==
    last.op \in {"write", "updateLabels", "convertFormat"} /\ ~last.ok =>
        disk = last.before

\* A failed call whose parse failed, or that never opened the file, leaves
\* the file as it was.
FailedParseLeavesFile ==
    /\ last.op \in {"updateLabels", "convertFormat"}
    /\ ~last.ok
    /\ ~parse(last.before, 0).ok
    => disk = last.before

\* updateLabels failed on a file that held points and parsed, and left a
\* header without payload.
FailedUpdateEmptiedFile ==
    /\ last.op = "updateLabels" /\ ~last.ok
    /\ parse(last.before, 0).ok
    /\ numPoints(parse(last.before, 0).data) = 2
    /\ disk.exists /\ disk.body = BytesBody(<< >>)


\* One past the last byte parseBinaryCompressedData reads for field i of
\* the header: the field's offset, the offset of its last point, its size.
LastByteRead(header, i) ==
    compressedOffset(header.fields, header.points, i)
      + ((header.points - 1) * header.fields[i].size * header.fields[i].count)
      + header.fields[i].size

\* C25: when a binary_compressed payload passes the length check and parse
\* returns, every byte read for a field lies inside the decompressed
\* buffer of the declared length.
C25_ReadsInsideBuffer ==
    ParsedCompressed /\ last.ok =>
        \A i \in 1..Len(parseHeader(last.before).header.fields) :
           /\ Decodable(parseHeader(last.before).header.fields[i])
           /\ parseHeader(last.before).header.points > 0
           => LastByteRead(parseHeader(last.before).header, i)
                <= DeclaredLen(last.before)

\* parse returned a point of a file from elsewhere that the decompressed
\* buffer did not hold.
ParsedPastBuffer ==
    /\ ParsedCompressed /\ last.ok
    /\ last.prev.op = "foreign"
    /\ Len(last.res.fieldData) = 1
    /\ Len(last.res.fieldData[1].v) = 2
    /\ DeclaredLen(last.before) = 1

====
